---- MODULE Spec2Model ----
(***************************************************************************)
(* Recipe-tree recombination engine of Cooking-Up-Creativity               *)
(* (src/cooking_up_creativity/src/generate_ideas/tree_edit_distance.py).   *)
(*                                                                         *)
(* A tree_dict is a function from node names to node records               *)
(*   [label, type, abstr, root, parent, children]                          *)
(* and the tracking tree adds the key "marked".  Python's None is NoNode.  *)
(* In the stepwise applier a label is modelled by its rank in Python's     *)
(* string order, which is all that sorted(..., key=label) reads of it; in  *)
(* the cost model and the edit script a label is a string of characters.   *)
(***************************************************************************)
EXTENDS Integers, Sequences, FiniteSets, Bags, TLC

NoNode == "None"

\* ------------------------------------------------------------------------
\* Sequence helpers (Python list idioms)
\* ------------------------------------------------------------------------

Range(s) == {s[i] : i \in 1..Len(s)}

\* [c for c in s if c not in drop]
RECURSIVE WithoutAll(_, _)
WithoutAll(s, drop) ==
    IF s = <<>> THEN <<>>
    ELSE IF Head(s) \in drop THEN WithoutAll(Tail(s), drop)
         ELSE <<Head(s)>> \o WithoutAll(Tail(s), drop)

\* list.remove(x): drops the first occurrence of x
RECURSIVE RemoveFirst(_, _)
RemoveFirst(s, x) ==
    IF s = <<>> THEN <<>>
    ELSE IF Head(s) = x THEN Tail(s)
         ELSE <<Head(s)>> \o RemoveFirst(Tail(s), x)

\* insertion of x into an already sorted list, after every element whose key
\* is not greater: one step of a stable sort
RECURSIVE InsertStable(_, _, _)
InsertStable(s, x, tree) ==
    IF s = <<>> THEN <<x>>
    ELSE IF tree[Head(s)].label <= tree[x].label
         THEN <<Head(s)>> \o InsertStable(Tail(s), x, tree)
         ELSE <<x>> \o s

\* sorted(names, key=lambda x: tree[x]["label"]): Python's sort is stable
RECURSIVE SortedByLabel(_, _)
SortedByLabel(names, tree) ==
    IF names = <<>> THEN <<>>
    ELSE InsertStable(SortedByLabel(SubSeq(names, 1, Len(names) - 1), tree),
                      names[Len(names)], tree)

IsSortedByLabel(names, tree) ==
    \A i \in 1..(Len(names) - 1) : tree[names[i]].label <= tree[names[i + 1]].label

\* every arrangement of the set S as a list without repetition
Arrangements(S) ==
    {s \in [1..Cardinality(S) -> S] : \A i, j \in 1..Cardinality(S) : i # j => s[i] # s[j]}

\* ------------------------------------------------------------------------
\* update_node_children_in_tree_dict
\* ------------------------------------------------------------------------

\* the lookups of update_node_children_in_tree_dict that raise KeyError
UpdateChildrenRaises(tree_dict, node_name, to_remove, to_add) ==
    /\ node_name # NoNode
    /\ \/ node_name \notin DOMAIN tree_dict
       \/ \E c \in Range(WithoutAll(tree_dict[node_name].children, Range(to_remove)) \o to_add) :
              c \notin DOMAIN tree_dict

update_node_children_in_tree_dict(tree_dict, node_name, to_remove, to_add) ==
    IF node_name # NoNode
    THEN [tree_dict EXCEPT ![node_name].children =
             SortedByLabel(WithoutAll(tree_dict[node_name].children, Range(to_remove)) \o to_add,
                           tree_dict)]
    ELSE tree_dict

\* tree_dict[name] = rec (a new key, or an overwrite)
Put(tree_dict, name, rec) ==
    [n \in (DOMAIN tree_dict) \cup {name} |-> IF n = name THEN rec ELSE tree_dict[n]]

\* del tree_dict[name]
Del(tree_dict, name) == [n \in (DOMAIN tree_dict) \ {name} |-> tree_dict[n]]

\* ------------------------------------------------------------------------
\* Concrete operations (the strings of concretize_tree_edit_operations, as
\* build_tracking_tree_dict_for_ops and get_concise_operations split them)
\*   "insert X"                     [kind "insert",        node X]
\*   "insert X child of P"          [kind "insert_child",  node X, ref P]
\*   "insert X father of c1,c2"     [kind "insert_father", node X, names <<c1,c2>>]
\*   "remove X"                     [kind "remove",        node X]
\*   "update X label to Y label"    [kind "update",        node X, ref Y]
\*   "match X to Y"                 [kind "match",         node X, ref Y]
\*   "X child of P"                 [kind "child_of",      node X, ref P]
\* ------------------------------------------------------------------------

\* the line that attaches an orphan is written with the insert prefix
COp_InsertPrefixed(kind, node, ref, names) ==
    [kind |-> IF kind = "child_of" THEN "insert_child" ELSE kind,
     node |-> node, ref |-> ref, names |-> names]

COp(kind, node, ref, names) == [kind |-> kind, node |-> node, ref |-> ref, names |-> names]

\* deepcopy(tree_dict1): the nodes of T1 carry no "marked" key yet
TrackingCopy(tree_dict1) ==
    [n \in DOMAIN tree_dict1 |->
        [label |-> tree_dict1[n].label, type |-> tree_dict1[n].type,
         abstr |-> tree_dict1[n].abstr, root |-> tree_dict1[n].root,
         parent |-> tree_dict1[n].parent, children |-> tree_dict1[n].children,
         marked |-> FALSE, has_marked |-> FALSE]]

\* an inserted node starts as already materialized
NewTrackingNode_Marked(tree_dict2, node_name, children, root, parent) ==
    [label |-> tree_dict2[node_name].label, type |-> tree_dict2[node_name].type,
     abstr |-> tree_dict2[node_name].abstr, root |-> root, parent |-> parent,
     children |-> children, marked |-> TRUE, has_marked |-> TRUE]

\* the final parent of an inserted node is not recorded
NewTrackingNode_Parentless(tree_dict2, node_name, children, root, parent) ==
    [label |-> tree_dict2[node_name].label, type |-> tree_dict2[node_name].type,
     abstr |-> tree_dict2[node_name].abstr, root |-> root, parent |-> NoNode,
     children |-> children, marked |-> FALSE, has_marked |-> TRUE]

NewTrackingNode(tree_dict2, node_name, children, root, parent) ==
    [label |-> tree_dict2[node_name].label, type |-> tree_dict2[node_name].type,
     abstr |-> tree_dict2[node_name].abstr, root |-> root, parent |-> parent,
     children |-> children, marked |-> FALSE, has_marked |-> TRUE]

\* the loop "for cn in children_names" of the father-of branch: the last child
\* (in label order) that has a parent decides the inserted node's parent
RECURSIVE FatherParent(_, _, _)
FatherParent(tracking_tree, children_names, parent) ==
    IF children_names = <<>> THEN parent
    ELSE FatherParent(tracking_tree, Tail(children_names),
                      IF tracking_tree[Head(children_names)].parent # NoNode
                      THEN tracking_tree[Head(children_names)].parent
                      ELSE parent)

\* one iteration of the loop of build_tracking_tree_dict_for_ops
TrackingStep(tracking_tree, operation, tree_dict2) ==
    LET node_name == operation.node IN
    CASE operation.kind = "insert" ->
            Put(tracking_tree, node_name,
                NewTrackingNode(tree_dict2, node_name, <<>>, FALSE, NoNode))
      [] operation.kind = "insert_child" ->
            LET parent_name == operation.ref
                t1 == Put(tracking_tree, node_name,
                          NewTrackingNode(tree_dict2, node_name, <<>>, FALSE, parent_name))
            IN  update_node_children_in_tree_dict(t1, parent_name, <<>>, <<node_name>>)
      [] operation.kind = "insert_father" ->
            LET root_children == SelectSeq(operation.names, LAMBDA cn : tracking_tree[cn].root)
                is_root == root_children # <<>>
                t1 == IF is_root
                      THEN [tracking_tree EXCEPT ![root_children[1]].root = FALSE]
                      ELSE tracking_tree
                children_names == SortedByLabel(operation.names, t1)
                parent == FatherParent(t1, children_names, NoNode)
                t2 == [n \in DOMAIN t1 |->
                          IF n \in Range(children_names)
                          THEN [t1[n] EXCEPT !.parent = node_name] ELSE t1[n]]
                t3 == Put(t2, node_name,
                          NewTrackingNode(tree_dict2, node_name, children_names, is_root, parent))
            IN  update_node_children_in_tree_dict(t3, parent, children_names, <<node_name>>)
      [] operation.kind = "remove" ->
            [tracking_tree EXCEPT ![node_name].marked = TRUE, ![node_name].has_marked = TRUE]
      [] operation.kind = "update" ->
            LET updated_node_name == operation.ref IN
            [tracking_tree EXCEPT ![node_name].marked = TRUE,
                                  ![node_name].has_marked = TRUE,
                                  ![node_name].label = tree_dict2[updated_node_name].label,
                                  ![node_name].type = tree_dict2[updated_node_name].type,
                                  ![node_name].abstr = tree_dict2[updated_node_name].abstr]
      [] operation.kind = "match" ->
            [tracking_tree EXCEPT ![node_name].marked = TRUE, ![node_name].has_marked = TRUE]
      [] OTHER ->  \* "X child of P"
            LET parent_name == operation.ref
                t1 == [tracking_tree EXCEPT ![node_name].parent = parent_name]
            IN  update_node_children_in_tree_dict(t1, parent_name, <<>>, <<node_name>>)

\* a remove line takes its node out of the tracking tree
RECURSIVE TrackingReplay_RemoveDeletes(_, _, _)
TrackingReplay_RemoveDeletes(tracking_tree, all_operations, tree_dict2) ==
    IF all_operations = <<>> THEN tracking_tree
    ELSE TrackingReplay_RemoveDeletes(
             IF Head(all_operations).kind = "remove"
             THEN Del(tracking_tree, Head(all_operations).node)
             ELSE TrackingStep(tracking_tree, Head(all_operations), tree_dict2),
             Tail(all_operations), tree_dict2)

RECURSIVE TrackingReplay(_, _, _)
TrackingReplay(tracking_tree, all_operations, tree_dict2) ==
    IF all_operations = <<>> THEN tracking_tree
    ELSE TrackingReplay(TrackingStep(tracking_tree, Head(all_operations), tree_dict2),
                        Tail(all_operations), tree_dict2)

build_tracking_tree_dict_for_ops(all_operations, tree_dict1, tree_dict2) ==
    TrackingReplay(TrackingCopy(tree_dict1), all_operations, tree_dict2)

\* ------------------------------------------------------------------------
\* get_concise_operations: "ADD X", "DEL X", "UPDATE X Y"
\* ------------------------------------------------------------------------

SOp(tag, node, new) == [tag |-> tag, node |-> node, new |-> new]

RECURSIVE get_concise_operations(_)
get_concise_operations(all_operations) ==
    IF all_operations = <<>> THEN <<>>
    ELSE LET operation == Head(all_operations)
             rest == get_concise_operations(Tail(all_operations))
         IN  IF operation.kind \in {"insert", "insert_child", "insert_father"}
             THEN <<SOp("ADD", operation.node, NoNode)>> \o rest
             ELSE IF operation.kind = "remove"
             THEN <<SOp("DEL", operation.node, NoNode)>> \o rest
             ELSE IF operation.kind = "update"
             THEN <<SOp("UPDATE", operation.node, operation.ref)>> \o rest
             ELSE rest

\* ------------------------------------------------------------------------
\* get_nearest_marked_descendants / get_nearest_marked_ancestor
\* ------------------------------------------------------------------------

\* reading tracking_tree[n]["marked"] raises KeyError
NoMarkedKey(tracking_tree, n) ==
    n \notin DOMAIN tracking_tree \/ ~tracking_tree[n].has_marked

\* some lookup of get_nearest_marked_descendants_rec raises KeyError
RECURSIVE DescendantsRaise(_, _)
DescendantsRaise(tracking_tree, node_name) ==
    \/ node_name \notin DOMAIN tracking_tree
    \/ \E child \in Range(tracking_tree[node_name].children) :
          \/ NoMarkedKey(tracking_tree, child)
          \/ ~tracking_tree[child].marked /\ DescendantsRaise(tracking_tree, child)

\* the set that get_nearest_marked_descendants_rec collects: list(set(...))
\* at the end of every call removes what the shared accumulator duplicated
RECURSIVE get_nearest_marked_descendants_rec(_, _)
get_nearest_marked_descendants_rec(tracking_tree, node_name) ==
    UNION {IF tracking_tree[child].marked
           THEN {child}
           ELSE get_nearest_marked_descendants_rec(tracking_tree, child)
           : child \in Range(tracking_tree[node_name].children)}

\* sorted(list(set(...)), key=label): the set's iteration order is not fixed,
\* so equal labels may come out in either order
\* the list is left in the order the set gave it
get_nearest_marked_descendants_Unsorted(tracking_tree, node_name) ==
    Arrangements(get_nearest_marked_descendants_rec(tracking_tree, node_name))

get_nearest_marked_descendants(tracking_tree, node_name) ==
    {s \in Arrangements(get_nearest_marked_descendants_rec(tracking_tree, node_name)) :
        IsSortedByLabel(s, tracking_tree)}

\* list(set(marked_descendants)): every element once; a list is a bag here,
\* because nothing reads the order before the final sort
list_set(marked_descendants) == SetToBag(BagToSet(marked_descendants))

\* get_nearest_marked_descendants_rec with its accumulator: the list passed in
\* is extended in place, so the caller sees what the call added (field list),
\* and then extends it once more by what the call returns (field ret)
RECURSIVE marked_descendants_rec(_, _, _)
marked_descendants_rec(tracking_tree, node_name, marked_descendants) ==
    LET children == tracking_tree[node_name].children
        RECURSIVE Loop(_, _)
        Loop(rest, list) ==
            IF rest = <<>> THEN list
            ELSE LET child == Head(rest) IN
                 IF tracking_tree[child].marked
                 THEN Loop(Tail(rest), list (+) SetToBag({child}))
                 ELSE LET called == marked_descendants_rec(tracking_tree, child, list)
                      IN  Loop(Tail(rest), called.list (+) called.ret)
    IN  IF children = <<>>
        THEN [ret |-> EmptyBag, list |-> marked_descendants]
        ELSE LET list == Loop(children, marked_descendants)
             IN  [ret |-> list_set(list), list |-> list]

RECURSIVE AncestorRaises(_, _)
AncestorRaises(tracking_tree, node_name) ==
    \/ node_name \notin DOMAIN tracking_tree
    \/ LET parent == tracking_tree[node_name].parent IN
       /\ parent # NoNode
       /\ \/ NoMarkedKey(tracking_tree, parent)
          \/ ~tracking_tree[parent].marked /\ AncestorRaises(tracking_tree, parent)

RECURSIVE get_nearest_marked_ancestor(_, _)
get_nearest_marked_ancestor(tracking_tree, node_name) ==
    LET parent == tracking_tree[node_name].parent IN
    IF parent = NoNode THEN NoNode
    ELSE IF tracking_tree[parent].marked THEN parent
    ELSE get_nearest_marked_ancestor(tracking_tree, parent)

\* ------------------------------------------------------------------------
\* handle_one_operation
\* ------------------------------------------------------------------------

NewTreeNode(tracking_tree, node_name) ==
    [label |-> tracking_tree[node_name].label, type |-> tracking_tree[node_name].type,
     abstr |-> tracking_tree[node_name].abstr, root |-> FALSE, parent |-> NoNode,
     children |-> <<>>]

\* the adopted children are re-parented, the root flag stays where it was
AdoptChildren_NoRootTransfer(tree, node_name, children) ==
    [n \in DOMAIN tree |->
        IF n \in Range(children) THEN [tree[n] EXCEPT !.parent = node_name] ELSE tree[n]]

\* the loop "for child in first_marked_children" of the ADD branch
RECURSIVE AdoptChildren(_, _, _)
AdoptChildren(tree, node_name, children) ==
    IF children = <<>> THEN tree
    ELSE LET child == Head(children)
             t1 == IF tree[child].root
                   THEN [tree EXCEPT ![child].root = FALSE, ![node_name].root = TRUE]
                   ELSE tree
         IN  AdoptChildren([t1 EXCEPT ![child].parent = node_name], node_name, Tail(children))

\* the children of a deleted root are re-parented but not made root
ReparentChildren_NoPromotion(tree, children, parent) ==
    [n \in DOMAIN tree |->
        IF n \in Range(children) THEN [tree[n] EXCEPT !.parent = parent] ELSE tree[n]]

\* the loop "for child in children" of the DEL branch (intermediate tree)
RECURSIVE ReparentChildren(_, _, _)
ReparentChildren(tree, children, parent) ==
    IF children = <<>> THEN tree
    ELSE LET child == Head(children)
             t1 == [tree EXCEPT ![child].parent = parent]
         IN  ReparentChildren(IF parent # NoNode THEN t1 ELSE [t1 EXCEPT ![child].root = TRUE],
                              Tail(children), parent)

\* the loop "for child in children_tracking" of the DEL branch (tracking tree)
RECURSIVE ReparentTracking(_, _, _)
ReparentTracking(tree, children, parent) ==
    IF children = <<>> THEN tree
    ELSE ReparentTracking([tree EXCEPT ![Head(children)].parent = parent], Tail(children), parent)

\* ADD: postponed exactly when there is neither a marked descendant nor a
\* marked ancestor
AddPostponed(first_marked_children, first_marked_ancestor) ==
    ~(first_marked_children # <<>> \/ first_marked_ancestor # NoNode)

AddToTree(intermediate_tree, tracking_tree, node_name, first_marked_children, first_marked_ancestor) ==
    LET t0 == Put(intermediate_tree, node_name, NewTreeNode(tracking_tree, node_name))
        t1 == IF first_marked_children # <<>>
              THEN AdoptChildren([t0 EXCEPT ![node_name].children = first_marked_children],
                                 node_name, first_marked_children)
              ELSE t0
    IN  IF first_marked_ancestor # NoNode
        THEN update_node_children_in_tree_dict(
                 [t1 EXCEPT ![node_name].parent = first_marked_ancestor],
                 first_marked_ancestor, first_marked_children, <<node_name>>)
        ELSE t1

\* the marking runs with the node unmarked even when the ADD is postponed
MarkAdded_Always(tracking_tree, node_name, postponed) ==
    [tracking_tree EXCEPT ![node_name].marked = TRUE, ![node_name].has_marked = TRUE]

\* tracking_tree[node_name]["marked"] = True, inside the branch that attaches
MarkAdded(tracking_tree, node_name, postponed) ==
    IF postponed THEN tracking_tree
    ELSE [tracking_tree EXCEPT ![node_name].marked = TRUE, ![node_name].has_marked = TRUE]

AddRaises(intermediate_tree, tracking_tree, node_name) ==
    \/ DescendantsRaise(tracking_tree, node_name)
    \/ AncestorRaises(tracking_tree, node_name)
    \/ LET kids == get_nearest_marked_descendants_rec(tracking_tree, node_name)
           first_marked_ancestor == get_nearest_marked_ancestor(tracking_tree, node_name)
       IN  \/ \E child \in kids : child \notin DOMAIN intermediate_tree
           \/ /\ first_marked_ancestor # NoNode
              /\ \/ first_marked_ancestor \notin DOMAIN intermediate_tree
                 \/ \E c \in Range(intermediate_tree[first_marked_ancestor].children) :
                        c \notin kids /\ c # node_name /\ c \notin DOMAIN intermediate_tree

\* the guard off by one: a parentless node with two children is not held back
DelPostponed_OffByOne(parent, children) == parent = NoNode /\ Len(children) > 2

\* DEL: postponed when the node is parentless and has more than one child
DelPostponed(parent, children) == parent = NoNode /\ Len(children) > 1

\* the parent's children list is left alone: it keeps naming the deleted node
DelFromTree_ParentKeepsEntry(intermediate_tree, node_name) ==
    Del(ReparentChildren(intermediate_tree, intermediate_tree[node_name].children,
                         intermediate_tree[node_name].parent), node_name)

DelFromTree(intermediate_tree, node_name) ==
    LET parent == intermediate_tree[node_name].parent
        children == intermediate_tree[node_name].children
        t1 == IF parent # NoNode
              THEN update_node_children_in_tree_dict(intermediate_tree, parent, <<node_name>>, children)
              ELSE intermediate_tree
    IN  Del(ReparentChildren(t1, children, parent), node_name)

\* the deleted node stays in the tracking tree, still marked
DelFromTracking_NodeKept(tracking_tree, node_name) == tracking_tree

DelFromTracking(tracking_tree, node_name) ==
    LET parent_tracking == tracking_tree[node_name].parent
        children_tracking == tracking_tree[node_name].children
        t1 == IF parent_tracking # NoNode
              THEN update_node_children_in_tree_dict(tracking_tree, parent_tracking,
                                                     <<node_name>>, children_tracking)
              ELSE tracking_tree
    IN  Del(ReparentTracking(t1, children_tracking, parent_tracking), node_name)

DelRaises(intermediate_tree, tracking_tree, node_name) ==
    \/ node_name \notin DOMAIN intermediate_tree
    \/ LET parent == intermediate_tree[node_name].parent
           children == intermediate_tree[node_name].children
       IN  /\ ~DelPostponed(parent, children)
           /\ \/ UpdateChildrenRaises(intermediate_tree, parent, <<node_name>>, children)
              \/ \E child \in Range(children) : child \notin DOMAIN intermediate_tree
              \/ node_name \notin DOMAIN tracking_tree
              \/ LET parent_tracking == tracking_tree[node_name].parent
                     children_tracking == tracking_tree[node_name].children
                 IN  \/ UpdateChildrenRaises(tracking_tree, parent_tracking,
                                             <<node_name>>, children_tracking)
                     \/ \E child \in Range(children_tracking) : child \notin DOMAIN tracking_tree

UpdateRaises(intermediate_tree, tracking_tree, node_name) ==
    node_name \notin DOMAIN intermediate_tree \/ node_name \notin DOMAIN tracking_tree

\* the label is taken over, the abstraction is forgotten
UpdateInTree_LabelOnly(intermediate_tree, tracking_tree, node_name) ==
    [intermediate_tree EXCEPT ![node_name].label = tracking_tree[node_name].label]

UpdateInTree(intermediate_tree, tracking_tree, node_name) ==
    [intermediate_tree EXCEPT ![node_name].label = tracking_tree[node_name].label,
                              ![node_name].abstr = tracking_tree[node_name].abstr]

HandleRaises(intermediate_tree, short_operation, tracking_tree) ==
    CASE short_operation.tag = "ADD" ->
            AddRaises(intermediate_tree, tracking_tree, short_operation.node)
      [] short_operation.tag = "DEL" ->
            DelRaises(intermediate_tree, tracking_tree, short_operation.node)
      [] OTHER ->
            UpdateRaises(intermediate_tree, tracking_tree, short_operation.node)

\* The outcomes of handle_one_operation on an operation that does not raise:
\* the trees after the call, whether the operation came back as postponed, and
\* the locals the branch computed.  More than one outcome only when nearest
\* marked descendants carry equal labels.
handle_one_operation(intermediate_tree, short_operation, tracking_tree) ==
    LET node_name == short_operation.node IN
    CASE short_operation.tag = "ADD" ->
            LET first_marked_ancestor == get_nearest_marked_ancestor(tracking_tree, node_name) IN
            {[tag |-> "ADD", node |-> node_name,
              postponed |-> AddPostponed(first_marked_children, first_marked_ancestor),
              tree |-> IF AddPostponed(first_marked_children, first_marked_ancestor)
                       THEN intermediate_tree
                       ELSE AddToTree(intermediate_tree, tracking_tree, node_name,
                                      first_marked_children, first_marked_ancestor),
              tracking |-> MarkAdded(tracking_tree, node_name,
                                     AddPostponed(first_marked_children, first_marked_ancestor)),
              parent |-> first_marked_ancestor, children |-> first_marked_children]
             : first_marked_children \in get_nearest_marked_descendants(tracking_tree, node_name)}
      [] short_operation.tag = "DEL" ->
            LET parent == intermediate_tree[node_name].parent
                children == intermediate_tree[node_name].children
            IN  {[tag |-> "DEL", node |-> node_name,
                  postponed |-> DelPostponed(parent, children),
                  tree |-> IF DelPostponed(parent, children) THEN intermediate_tree
                           ELSE DelFromTree(intermediate_tree, node_name),
                  tracking |-> IF DelPostponed(parent, children) THEN tracking_tree
                               ELSE DelFromTracking(tracking_tree, node_name),
                  parent |-> parent, children |-> children]}
      [] OTHER ->
            {[tag |-> "UPDATE", node |-> node_name, postponed |-> FALSE,
              tree |-> UpdateInTree(intermediate_tree, tracking_tree, node_name),
              tracking |-> tracking_tree,
              parent |-> NoNode, children |-> <<>>]}

\* ------------------------------------------------------------------------
\* Recombination requests: the trees and the concrete operation list that
\* create_single_combination hands to build_tracking_tree_dict_for_ops and
\* apply_tree_edits (t1_tree_dict, t2_tree_dict, all_operations), for pairs
\* of prepared recipe trees (node names suffixed _a / _b, children in label
\* order).
\* ------------------------------------------------------------------------

Node(label, type, abstr, root, parent, children) ==
    [label |-> label, type |-> type, abstr |-> abstr, root |-> root,
     parent |-> parent, children |-> children]

\* a lone node replaced by an unrelated node
\*   labels by rank: e=1, g=2
\*   insert n0_b; remove n0_a
Scenario1 ==
    [tree_dict1 |-> "n0_a" :> Node(1, "ingredient", "y", TRUE, NoNode, <<>>),
     tree_dict2 |-> "n0_b" :> Node(2, "ingredient", "x", TRUE, NoNode, <<>>),
     all_operations |-> <<COp("insert", "n0_b", NoNode, <<>>),
                         COp("remove", "n0_a", NoNode, <<>>)>>,
     new_tree |-> "n0_b" :> [root |-> FALSE, parent |-> NoNode, children |-> <<>>],
     core_ingr_names |-> {},
     structure_ingr_names |-> {}]

\* bake(flour, sugar) to bake(flour, chocolate)
\*   labels by rank: bake=1, chocolate=2, flour=3, sugar=4
\*   insert chocolate_b; match flour_a to flour_b; remove sugar_a; match bake_a to bake_b; chocolate_b child of bake_a
Scenario2 ==
    [tree_dict1 |-> "bake_a" :> Node(1, "action", "x", TRUE, NoNode, <<"flour_a", "sugar_a">>)
                    @@ "flour_a" :> Node(3, "ingredient", "grain", FALSE, "bake_a", <<>>)
                    @@ "sugar_a" :> Node(4, "ingredient", "sweet", FALSE, "bake_a", <<>>),
     tree_dict2 |-> "bake_b" :> Node(1, "action", "x", TRUE, NoNode, <<"chocolate_b", "flour_b">>)
                    @@ "flour_b" :> Node(3, "ingredient", "grain", FALSE, "bake_b", <<>>)
                    @@ "chocolate_b" :> Node(2, "ingredient", "sweet", FALSE, "bake_b", <<>>),
     all_operations |-> <<COp("insert", "chocolate_b", NoNode, <<>>),
                         COp("match", "flour_a", "flour_b", <<>>),
                         COp("remove", "sugar_a", NoNode, <<>>),
                         COp("match", "bake_a", "bake_b", <<>>),
                         COp("child_of", "chocolate_b", "bake_a", <<>>)>>,
     new_tree |-> "bake_a" :> [root |-> TRUE, parent |-> NoNode, children |-> <<"chocolate_b", "flour_a">>]
                  @@ "flour_a" :> [root |-> FALSE, parent |-> "bake_a", children |-> <<>>]
                  @@ "chocolate_b" :> [root |-> FALSE, parent |-> "bake_a", children |-> <<>>],
     core_ingr_names |-> {"chocolate_b"},
     structure_ingr_names |-> {}]

\* a lone node that becomes a leaf of a three-level tree
\*   labels by rank: b=1, c=2, g=3, h=4
\*   match n0_a to n3_b; insert n2_b; insert n1_b father of n2_b; insert n0_b father of n0_a,n1_b
Scenario3 ==
    [tree_dict1 |-> "n0_a" :> Node(1, "ingredient", "x", TRUE, NoNode, <<>>),
     tree_dict2 |-> "n0_b" :> Node(3, "ingredient", "y", TRUE, NoNode, <<"n3_b", "n1_b">>)
                    @@ "n1_b" :> Node(4, "action", "y", FALSE, "n0_b", <<"n2_b">>)
                    @@ "n2_b" :> Node(2, "action", "x", FALSE, "n1_b", <<>>)
                    @@ "n3_b" :> Node(1, "ingredient", "x", FALSE, "n0_b", <<>>),
     all_operations |-> <<COp("match", "n0_a", "n3_b", <<>>),
                         COp("insert", "n2_b", NoNode, <<>>),
                         COp("insert_father", "n1_b", NoNode, <<"n2_b">>),
                         COp("insert_father", "n0_b", NoNode, <<"n0_a", "n1_b">>)>>,
     new_tree |-> "n0_a" :> [root |-> FALSE, parent |-> "n0_b", children |-> <<>>]
                  @@ "n2_b" :> [root |-> FALSE, parent |-> "n1_b", children |-> <<>>]
                  @@ "n1_b" :> [root |-> FALSE, parent |-> "n0_b", children |-> <<"n2_b">>]
                  @@ "n0_b" :> [root |-> TRUE, parent |-> NoNode, children |-> <<"n0_a", "n1_b">>],
     core_ingr_names |-> {},
     structure_ingr_names |-> {}]

\* a root with two leaves, all removed
\*   labels by rank: a=1, b=2, d=3, f=4
\*   insert n0_b; remove n1_a; remove n2_a; remove n0_a
Scenario4 ==
    [tree_dict1 |-> "n0_a" :> Node(4, "action", "x", TRUE, NoNode, <<"n1_a", "n2_a">>)
                    @@ "n1_a" :> Node(2, "ingredient", "x", FALSE, "n0_a", <<>>)
                    @@ "n2_a" :> Node(3, "ingredient", "x", FALSE, "n0_a", <<>>),
     tree_dict2 |-> "n0_b" :> Node(1, "ingredient", "y", TRUE, NoNode, <<>>),
     all_operations |-> <<COp("insert", "n0_b", NoNode, <<>>),
                         COp("remove", "n1_a", NoNode, <<>>),
                         COp("remove", "n2_a", NoNode, <<>>),
                         COp("remove", "n0_a", NoNode, <<>>)>>,
     new_tree |-> "n0_b" :> [root |-> FALSE, parent |-> NoNode, children |-> <<>>],
     core_ingr_names |-> {},
     structure_ingr_names |-> {}]

\* fry(c, e) to bake(zap(e))
\*   labels by rank: bake=1, c=2, e=3, fry=4, zap=5
\*   remove n1_a; match n2_a to n2_b; insert n1_b; insert n2_b child of n1_b; update n0_a label to n0_b label; n1_b child of n0_a
Scenario5 ==
    [tree_dict1 |-> "n0_a" :> Node(4, "action", "y", TRUE, NoNode, <<"n1_a", "n2_a">>)
                    @@ "n1_a" :> Node(2, "ingredient", "y", FALSE, "n0_a", <<>>)
                    @@ "n2_a" :> Node(3, "ingredient", "y", FALSE, "n0_a", <<>>),
     tree_dict2 |-> "n0_b" :> Node(1, "action", "x", TRUE, NoNode, <<"n1_b">>)
                    @@ "n1_b" :> Node(5, "action", "y", FALSE, "n0_b", <<"n2_b">>)
                    @@ "n2_b" :> Node(3, "ingredient", "x", FALSE, "n1_b", <<>>),
     all_operations |-> <<COp("remove", "n1_a", NoNode, <<>>),
                         COp("match", "n2_a", "n2_b", <<>>),
                         COp("insert", "n1_b", NoNode, <<>>),
                         COp("insert_child", "n2_b", "n1_b", <<>>),
                         COp("update", "n0_a", "n0_b", <<>>),
                         COp("child_of", "n1_b", "n0_a", <<>>)>>,
     new_tree |-> "n0_a" :> [root |-> TRUE, parent |-> NoNode, children |-> <<"n2_a", "n1_b">>]
                  @@ "n2_a" :> [root |-> FALSE, parent |-> "n0_a", children |-> <<>>]
                  @@ "n1_b" :> [root |-> FALSE, parent |-> "n0_a", children |-> <<"n2_b">>]
                  @@ "n2_b" :> [root |-> FALSE, parent |-> "n1_b", children |-> <<>>],
     core_ingr_names |-> {},
     structure_ingr_names |-> {}]

\* a father inserted over children of two different parents
\*   labels by rank: a=1, b=2, c=3, d=4, e=5, g=6, h=7
\*   match n1_a to n3_b; insert n2_b father of n1_a; update n3_a label to n1_b label; insert n0_b father of n2_b,n3_a; remove n2_a; remove n0_a
Scenario6 ==
    [tree_dict1 |-> "n0_a" :> Node(4, "action", "y", TRUE, NoNode, <<"n1_a", "n2_a">>)
                    @@ "n1_a" :> Node(5, "action", "x", FALSE, "n0_a", <<>>)
                    @@ "n2_a" :> Node(6, "ingredient", "x", FALSE, "n0_a", <<"n3_a">>)
                    @@ "n3_a" :> Node(7, "ingredient", "x", FALSE, "n2_a", <<>>),
     tree_dict2 |-> "n0_b" :> Node(2, "ingredient", "x", TRUE, NoNode, <<"n2_b", "n1_b">>)
                    @@ "n1_b" :> Node(3, "ingredient", "x", FALSE, "n0_b", <<>>)
                    @@ "n2_b" :> Node(1, "ingredient", "x", FALSE, "n0_b", <<"n3_b">>)
                    @@ "n3_b" :> Node(5, "action", "x", FALSE, "n2_b", <<>>),
     all_operations |-> <<COp("match", "n1_a", "n3_b", <<>>),
                         COp("insert_father", "n2_b", NoNode, <<"n1_a">>),
                         COp("update", "n3_a", "n1_b", <<>>),
                         COp("insert_father", "n0_b", NoNode, <<"n2_b", "n3_a">>),
                         COp("remove", "n2_a", NoNode, <<>>),
                         COp("remove", "n0_a", NoNode, <<>>)>>,
     new_tree |-> "n1_a" :> [root |-> FALSE, parent |-> "n2_b", children |-> <<>>]
                  @@ "n3_a" :> [root |-> FALSE, parent |-> NoNode, children |-> <<>>]
                  @@ "n2_b" :> [root |-> FALSE, parent |-> "n0_b", children |-> <<"n1_a">>]
                  @@ "n0_b" :> [root |-> FALSE, parent |-> NoNode, children |-> <<"n2_b", "n3_a">>],
     core_ingr_names |-> {},
     structure_ingr_names |-> {}]

\* chop(g, a, e) to fry(c, g, b): the root replaced over three leaves
\*   labels by rank: a=1, b=2, c=3, chop=4, e=5, fry=6, g=7
\*   insert n3_b; update n2_a label to n1_b label; remove n3_a; match n1_a to n2_b; insert n0_b father of n3_b,n2_a; insert n2_b child of n0_b; remove n0_a
Scenario7 ==
    [tree_dict1 |-> "n0_a" :> Node(4, "action", "y", TRUE, NoNode, <<"n2_a", "n3_a", "n1_a">>)
                    @@ "n1_a" :> Node(7, "ingredient", "y", FALSE, "n0_a", <<>>)
                    @@ "n2_a" :> Node(1, "ingredient", "y", FALSE, "n0_a", <<>>)
                    @@ "n3_a" :> Node(5, "ingredient", "y", FALSE, "n0_a", <<>>),
     tree_dict2 |-> "n0_b" :> Node(6, "action", "y", TRUE, NoNode, <<"n3_b", "n1_b", "n2_b">>)
                    @@ "n1_b" :> Node(3, "ingredient", "y", FALSE, "n0_b", <<>>)
                    @@ "n2_b" :> Node(7, "ingredient", "x", FALSE, "n0_b", <<>>)
                    @@ "n3_b" :> Node(2, "ingredient", "x", FALSE, "n0_b", <<>>),
     all_operations |-> <<COp("insert", "n3_b", NoNode, <<>>),
                         COp("update", "n2_a", "n1_b", <<>>),
                         COp("remove", "n3_a", NoNode, <<>>),
                         COp("match", "n1_a", "n2_b", <<>>),
                         COp("insert_father", "n0_b", NoNode, <<"n3_b", "n2_a">>),
                         COp("insert_child", "n2_b", "n0_b", <<>>),
                         COp("remove", "n0_a", NoNode, <<>>)>>,
     new_tree |-> "n1_a" :> [root |-> FALSE, parent |-> NoNode, children |-> <<>>]
                  @@ "n2_a" :> [root |-> FALSE, parent |-> "n0_b", children |-> <<>>]
                  @@ "n3_b" :> [root |-> FALSE, parent |-> "n0_b", children |-> <<>>]
                  @@ "n0_b" :> [root |-> FALSE, parent |-> NoNode, children |-> <<"n3_b", "n2_a", "n2_b">>]
                  @@ "n2_b" :> [root |-> FALSE, parent |-> "n0_b", children |-> <<>>],
     core_ingr_names |-> {},
     structure_ingr_names |-> {}]

\* zap(c, a) to chop(b, c)
\*   labels by rank: a=1, b=2, c=3, chop=4, zap=5
\*   update n2_a label to n1_b label; match n1_a to n2_b; insert n0_b father of n2_a; insert n2_b child of n0_b; remove n0_a
Scenario8 ==
    [tree_dict1 |-> "n0_a" :> Node(5, "action", "y", TRUE, NoNode, <<"n2_a", "n1_a">>)
                    @@ "n1_a" :> Node(3, "ingredient", "x", FALSE, "n0_a", <<>>)
                    @@ "n2_a" :> Node(1, "ingredient", "x", FALSE, "n0_a", <<>>),
     tree_dict2 |-> "n0_b" :> Node(4, "action", "x", TRUE, NoNode, <<"n1_b", "n2_b">>)
                    @@ "n1_b" :> Node(2, "ingredient", "x", FALSE, "n0_b", <<>>)
                    @@ "n2_b" :> Node(3, "ingredient", "y", FALSE, "n0_b", <<>>),
     all_operations |-> <<COp("update", "n2_a", "n1_b", <<>>),
                         COp("match", "n1_a", "n2_b", <<>>),
                         COp("insert_father", "n0_b", NoNode, <<"n2_a">>),
                         COp("insert_child", "n2_b", "n0_b", <<>>),
                         COp("remove", "n0_a", NoNode, <<>>)>>,
     new_tree |-> "n1_a" :> [root |-> FALSE, parent |-> NoNode, children |-> <<>>]
                  @@ "n2_a" :> [root |-> FALSE, parent |-> "n0_b", children |-> <<>>]
                  @@ "n0_b" :> [root |-> FALSE, parent |-> NoNode, children |-> <<"n2_a", "n2_b">>]
                  @@ "n2_b" :> [root |-> FALSE, parent |-> "n0_b", children |-> <<>>],
     core_ingr_names |-> {},
     structure_ingr_names |-> {}]

Scenarios == <<Scenario1, Scenario2, Scenario3, Scenario4, Scenario5, Scenario6, Scenario7,
              Scenario8>>

\* how many of the requests above a run draws from
NumScenarios == 7

\* the operations held at the front and at the back each keep the order of
\* the input list, insertions and updates interleaved as they came
shuffle_operation_order_InputOrder(core_ingr_names, structure_ingr_names, short_operations) ==
    LET AtFront(op) == \/ op.tag = "ADD" /\ op.node \in core_ingr_names
                       \/ op.tag = "UPDATE" /\ op.new \in core_ingr_names
        AtBack(op) == \/ op.tag = "DEL" /\ op.node \in structure_ingr_names
                      \/ op.tag = "UPDATE" /\ op.node \in structure_ingr_names
        other_operations == SelectSeq(short_operations, LAMBDA op : ~AtFront(op) /\ ~AtBack(op))
    IN  {SelectSeq(short_operations, AtFront)
           \o [j \in 1..Len(other_operations) |-> other_operations[p[j]]]
           \o SelectSeq(short_operations, AtBack) :
         p \in Arrangements(1..Len(other_operations))}

\* every order of the operations, with no operation held at either end
shuffle_operation_order_Unbiased(core_ingr_names, structure_ingr_names, short_operations) ==
    {[j \in 1..Len(short_operations) |-> short_operations[p[j]]] :
         p \in Arrangements(1..Len(short_operations))}

\* shuffle_operation_order: core insertions and core updates first, the
\* operations on structural ingredients last, the rest in between in any order
\* random.shuffle may leave.  core_ingr_names and structure_ingr_names are the
\* node names derived from the two parsed-ingredient dictionaries.
shuffle_operation_order(core_ingr_names, structure_ingr_names, short_operations) ==
    LET add_core_operations ==
            SelectSeq(short_operations, LAMBDA op : op.tag = "ADD" /\ op.node \in core_ingr_names)
        update_core_operations ==
            SelectSeq(short_operations, LAMBDA op : op.tag = "UPDATE" /\ op.new \in core_ingr_names)
        del_structure_operations ==
            SelectSeq(short_operations,
                      LAMBDA op : op.tag = "DEL" /\ op.node \in structure_ingr_names)
        update_structure_operations ==
            SelectSeq(short_operations,
                      LAMBDA op : op.tag = "UPDATE" /\ op.node \in structure_ingr_names)
        listed == Range(add_core_operations) \cup Range(update_core_operations)
                  \cup Range(del_structure_operations) \cup Range(update_structure_operations)
        other_operations == SelectSeq(short_operations, LAMBDA op : op \notin listed)
    IN  {add_core_operations \o update_core_operations
           \o [j \in 1..Len(other_operations) |-> other_operations[p[j]]]
           \o del_structure_operations \o update_structure_operations :
         p \in Arrangements(1..Len(other_operations))}

\* ------------------------------------------------------------------------
\* apply_tree_edits as a state machine: one step per call of
\* handle_one_operation, then the final pruning
\* ------------------------------------------------------------------------

VARIABLES
    scn,                   \* the request (index into Scenarios)
    short_operations,      \* short_operations[:stop_index], in scheduled order
    intermediate_tree,     \* the working tree
    tracking_tree,         \* the working copy of the tracking tree
    postponed_operations,  \* the postponed queue
    pc,                    \* "scheduled" | "retry" | "done" | "error"
    i,                     \* position of the outer loop (next scheduled operation)
    k,                     \* position of the iterator of "for po in postponed_operations"
    last,                  \* the last call of handle_one_operation and its locals
    pass_start,            \* history: the queue when the current retry pass began
    retried,               \* history: the retries of the current pass, and whether each applied
    frame                  \* the caller's objects of a request, or a direct call of one
                           \* function: its arguments and result

vars == <<scn, short_operations, intermediate_tree, tracking_tree, postponed_operations,
          pc, i, k, last, pass_start, retried, frame>>

NoCall == [tag |-> "none", node |-> NoNode, postponed |-> FALSE, parent |-> NoNode,
           children |-> <<>>, retry |-> FALSE]

\* a Python object: where it is and what it holds
Obj(id, value) == [id |-> id, value |-> value]

\* the object is taken as it is, without a copy
deepcopy_Alias(obj, address) == obj

\* copy.deepcopy: an object of its own, at a free address, with an equal value
deepcopy(obj, address) == [id |-> address, value |-> obj.value]

\* what the caller's object holds after the callee has left `value` in the
\* object it worked on
Afterwards(caller, worked_on, value) ==
    IF worked_on.id = caller.id THEN value ELSE caller.value

\* build_tracking_tree_dict_for_ops on objects: the tree it returns, and
\* tree_dict1 as the call leaves it (tree_dict2 is only read)
TrackingBuilt(all_operations, tree_dict1, tree_dict2, address) ==
    LET tracking == deepcopy(tree_dict1, address)
        value == build_tracking_tree_dict_for_ops(all_operations, tree_dict1.value,
                                                  tree_dict2.value)
    IN  [tracking_tree |-> Obj(tracking.id, value),
         tree_dict1 |-> Obj(tree_dict1.id, Afterwards(tree_dict1, tracking, value))]

\* the objects of create_single_combination when apply_tree_edits has made
\* its two copies: the caller's trees and where the working copies are
Objects(request) ==
    LET t1_tree_dict == Obj(1, request.tree_dict1)
        t2_tree_dict == Obj(2, request.tree_dict2)
        built == TrackingBuilt(request.all_operations, t1_tree_dict, t2_tree_dict, 3)
    IN  [fn |-> "create_single_combination",
         t1_tree_dict |-> built.tree_dict1,
         t2_tree_dict |-> t2_tree_dict,
         tracking_tree |-> built.tracking_tree,
         intermediate_tree |-> deepcopy(built.tree_dict1, 4),
         tracking_copy |-> deepcopy(built.tracking_tree, 5)]

\* the caller's objects after apply_tree_edits has written the two trees into
\* its working copies
Written(objects, tree, tracking) ==
    LET tree_written(caller) ==
            Obj(caller.id, Afterwards(caller, objects.intermediate_tree, tree))
        both_written(caller) ==
            Obj(caller.id, Afterwards(tree_written(caller), objects.tracking_copy, tracking))
    IN  [objects EXCEPT !.t1_tree_dict = both_written(@),
                        !.tracking_tree = both_written(@)]

Call(r, retry) == [tag |-> r.tag, node |-> r.node, postponed |-> r.postponed,
                   parent |-> r.parent, children |-> r.children, retry |-> retry]

Init ==
    \E s \in 1..NumScenarios :
    \E order \in shuffle_operation_order(Scenarios[s].core_ingr_names,
                                         Scenarios[s].structure_ingr_names,
                                         get_concise_operations(Scenarios[s].all_operations)) :
    \E stop_index \in 0..Len(order) :
        /\ scn = s
        /\ short_operations = SubSeq(order, 1, stop_index)
        /\ intermediate_tree = Objects(Scenarios[s]).intermediate_tree.value
        /\ tracking_tree = Objects(Scenarios[s]).tracking_copy.value
        /\ postponed_operations = <<>>
        /\ pc = "scheduled"
        /\ i = 1
        /\ k = 0
        /\ last = NoCall
        /\ pass_start = <<>>
        /\ retried = <<>>
        /\ frame = Objects(Scenarios[s])

\* a KeyError leaves apply_tree_edits without a result
Raise ==
    /\ pc' = "error"
    /\ UNCHANGED <<scn, short_operations, intermediate_tree, tracking_tree,
                   postponed_operations, i, k, last, pass_start, retried, frame>>

\* the body of "for operation in short_operations": one scheduled operation
HandleScheduled ==
    /\ pc = "scheduled"
    /\ i <= Len(short_operations)
    /\ LET operation == short_operations[i] IN
       IF HandleRaises(intermediate_tree, operation, tracking_tree)
       THEN Raise
       ELSE \E r \in handle_one_operation(intermediate_tree, operation, tracking_tree) :
               /\ intermediate_tree' = r.tree
               /\ tracking_tree' = r.tracking
               /\ last' = Call(r, FALSE)
               /\ i' = i + 1
               /\ postponed_operations' = IF r.postponed
                                          THEN postponed_operations \o <<operation>>
                                          ELSE postponed_operations
               /\ pc' = IF ~r.postponed /\ postponed_operations # <<>>
                        THEN "retry" ELSE "scheduled"
               /\ k' = IF ~r.postponed THEN 1 ELSE k
               /\ pass_start' = IF ~r.postponed THEN postponed_operations ELSE pass_start
               /\ retried' = IF ~r.postponed THEN <<>> ELSE retried
               /\ frame' = Written(frame, r.tree, r.tracking)
               /\ UNCHANGED <<scn, short_operations>>

\* an unbounded retry loop: the queue is walked again and again until it is
\* empty
RetryPostponed_UntilEmpty ==
    /\ pc = "retry"
    /\ k <= Len(postponed_operations)
    /\ LET po == postponed_operations[k] IN
       IF HandleRaises(intermediate_tree, po, tracking_tree)
       THEN Raise
       ELSE \E r \in handle_one_operation(intermediate_tree, po, tracking_tree) :
               LET queue == IF r.postponed THEN postponed_operations
                            ELSE RemoveFirst(postponed_operations, po)
               IN  /\ intermediate_tree' = r.tree
                   /\ tracking_tree' = r.tracking
                   /\ last' = Call(r, TRUE)
                   /\ postponed_operations' = queue
                   /\ k' = IF k + 1 <= Len(queue) THEN k + 1 ELSE 1
                   /\ pc' = IF queue # <<>> THEN "retry" ELSE "scheduled"
                   /\ retried' = <<[op |-> po, applied |-> ~r.postponed]>>
                   /\ frame' = Written(frame, r.tree, r.tracking)
                   /\ UNCHANGED <<scn, short_operations, i, pass_start>>

\* the body of "for po in postponed_operations": the list iterator yields the
\* element at position k of the list as it is now, and stops when k is past
\* its end; postponed_operations.remove(po) shortens the list under it
RetryPostponed ==
    /\ pc = "retry"
    /\ k <= Len(postponed_operations)
    /\ LET po == postponed_operations[k] IN
       IF HandleRaises(intermediate_tree, po, tracking_tree)
       THEN Raise
       ELSE \E r \in handle_one_operation(intermediate_tree, po, tracking_tree) :
               LET queue == IF r.postponed THEN postponed_operations
                            ELSE RemoveFirst(postponed_operations, po)
               IN  /\ intermediate_tree' = r.tree
                   /\ tracking_tree' = r.tracking
                   /\ last' = Call(r, TRUE)
                   /\ postponed_operations' = queue
                   /\ k' = k + 1
                   /\ pc' = IF k + 1 <= Len(queue) THEN "retry" ELSE "scheduled"
                   /\ retried' = retried \o <<[op |-> po, applied |-> ~r.postponed]>>
                   /\ frame' = Written(frame, r.tree, r.tracking)
                   /\ UNCHANGED <<scn, short_operations, i, pass_start>>

\* the final loop: children entries whose child names another parent are dropped
PruneRaises(tree) ==
    \E n \in DOMAIN tree : \E c \in Range(tree[n].children) : c \notin DOMAIN tree

Prune(tree) ==
    [n \in DOMAIN tree |->
        [tree[n] EXCEPT !.children = SelectSeq(tree[n].children, LAMBDA c : tree[c].parent = n)]]

Finalize ==
    /\ pc = "scheduled"
    /\ i > Len(short_operations)
    /\ IF PruneRaises(intermediate_tree)
       THEN Raise
       ELSE /\ intermediate_tree' = Prune(intermediate_tree)
            /\ pc' = "done"
            /\ frame' = Written(frame, Prune(intermediate_tree), tracking_tree)
            /\ UNCHANGED <<scn, short_operations, tracking_tree, postponed_operations,
                           i, k, last, pass_start, retried>>

Next == HandleScheduled \/ RetryPostponed \/ Finalize

Spec == Init /\ [][Next]_vars

\* the loops have an operation to hand to handle_one_operation
Calling == pc = "retry" \/ (pc = "scheduled" /\ i <= Len(short_operations))

\* The interpreter runs the function to its end: a step that can be taken is
\* taken.  This is weak fairness of each part of Next; for the two loop bodies
\* it is written out, with Calling for the states in which one of them can
\* take a step.
Live ==
    /\ Spec
    /\ WF_vars(Finalize)
    /\ ([]<>~Calling \/ []<><<HandleScheduled \/ RetryPostponed>>_vars)

\* ------------------------------------------------------------------------
\* The cost model.  A string is a sequence of characters; the type words and
\* the category names are single symbols of it, "_" and "/" the separators.
\* ------------------------------------------------------------------------

INFTY == 100000

Digits == {"0", "1", "2", "3", "4", "5", "6", "7", "8", "9"}

\* str.split(sep)
RECURSIVE Split(_, _)
Split(str, sep) ==
    IF \A p \in 1..Len(str) : str[p] # sep THEN <<str>>
    ELSE LET first == CHOOSE p \in 1..Len(str) :
                          str[p] = sep /\ \A q \in 1..(p - 1) : str[q] # sep
         IN  <<SubSeq(str, 1, first - 1)>> \o Split(SubSeq(str, first + 1, Len(str)), sep)

\* sep.join(strs)
RECURSIVE Join(_, _)
Join(strs, sep) ==
    IF strs = <<>> THEN <<>>
    ELSE IF Len(strs) = 1 THEN strs[1]
    ELSE strs[1] \o <<sep>> \o Join(Tail(strs), sep)

\* digits are kept
remove_digits_Kept(str) == str

\* ''.join([i for i in str if not i.isdigit()])
remove_digits(str) == SelectSeq(str, LAMBDA c : c \notin Digits)

\* the verbs of resources/cooking_verbs_to_categories.json
cooking_verbs_to_categories ==
    [verb \in {<<"a">>, <<"b">>, <<"a", "a">>, <<"a", "b">>, <<"b", "a">>, <<"b", "a", "k", "e">>} |->
        CASE verb = <<"a">> -> [direct_category |-> <<<<"boil">>>>, general_category |-> <<<<"heat">>>>]
          [] verb = <<"b">> -> [direct_category |-> <<<<"boil">>>>, general_category |-> <<<<"heat">>>>]
          [] verb = <<"a", "a">> -> [direct_category |-> <<<<"fry">>>>, general_category |-> <<<<"heat">>>>]
          [] verb = <<"a", "b">> -> [direct_category |-> <<<<"cut">>>>, general_category |-> <<<<"prep">>>>]
          [] verb = <<"b", "a">> -> [direct_category |-> <<<<"boil">>, <<"fry">>>>,
                                     general_category |-> <<<<"heat">>>>]
          [] OTHER -> [direct_category |-> <<<<"oven">>>>, general_category |-> <<<<"heat">>>>]]

\* the label add_zss_subtrees_to_tree_dict gives the zss node of a tree node
zss_label(node, verbs_to_categories) ==
    LET label == node.label \o <<"_">> \o <<node.type>>
        verb == remove_digits(node.label)
    IN  IF node.type = "action"
        THEN IF verb \in DOMAIN verbs_to_categories
             THEN label \o <<"_">> \o Join(verbs_to_categories[verb].direct_category, "/")
                        \o <<"_">> \o Join(verbs_to_categories[verb].general_category, "/")
             ELSE label \o <<"_", "None", "_", "None">>
        ELSE label \o <<"_">> \o <<node.abstr>>

ZssNode(label, children) == [label |-> label, children |-> children]

\* an insertion as cheap as a close update
insertion_cost_Cheap(zss_node) == 5

insertion_cost(zss_node) == 100

remove_cost(zss_node) == 100

\* two verbs of unknown category count as sharing their general category
update_cost_UnknownShared(zss_node1, zss_node2) ==
    LET spltd1 == Split(zss_node1.label, "_")
        spltd2 == Split(zss_node2.label, "_")
    IN  IF spltd1[2] # spltd2[2] THEN INFTY
        ELSE IF remove_digits(spltd1[1]) = remove_digits(spltd2[1]) THEN 0
        ELSE IF spltd1[2] = <<"action">>
             THEN IF spltd1[3] = spltd2[3] /\ spltd1[3] # <<"None">> THEN 1
                  ELSE IF spltd1[4] = spltd2[4] THEN 5
                  ELSE INFTY
             ELSE IF spltd1[3] = spltd2[3] THEN 5 ELSE INFTY

update_cost(zss_node1, zss_node2) ==
    LET spltd1 == Split(zss_node1.label, "_")
        spltd2 == Split(zss_node2.label, "_")
        type1 == spltd1[2]
        type2 == spltd2[2]
        label1 == remove_digits(spltd1[1])
        label2 == remove_digits(spltd2[1])
    IN  IF type1 # type2 THEN INFTY
        ELSE IF label1 = label2 THEN 0
        ELSE IF type1 = <<"action">>
             THEN IF spltd1[3] = spltd2[3] /\ spltd1[3] # <<"None">> THEN 1
                  ELSE IF spltd1[4] = spltd2[4] /\ spltd1[4] # <<"None">> THEN 5
                  ELSE INFTY
             ELSE IF spltd1[3] = spltd2[3] THEN 5 ELSE INFTY

\* ------------------------------------------------------------------------
\* The edit script.  Labels are strings here, compared as Python compares
\* them; distance is the ordered tree edit distance of the zss library, which
\* the engine calls with the three cost functions above.
\* ------------------------------------------------------------------------

Alphabet == <<"0", "1", "2", "3", "4", "5", "6", "7", "8", "9", "_",
              "a", "b", "c", "d", "e", "f", "g", "h", "i", "j", "k", "l", "m",
              "n", "o", "p", "q", "r", "s", "t", "u", "v", "w", "x", "y", "z">>

Ord(c) == CHOOSE p \in 1..Len(Alphabet) : Alphabet[p] = c

\* str1 <= str2 for two Python strings
RECURSIVE StrLeq(_, _)
StrLeq(str1, str2) ==
    IF str1 = <<>> THEN TRUE
    ELSE IF str2 = <<>> THEN FALSE
    ELSE IF Head(str1) = Head(str2) THEN StrLeq(Tail(str1), Tail(str2))
    ELSE Ord(Head(str1)) < Ord(Head(str2))

\* children_with_labels.sort(key=lambda x: x[1]), a stable sort
RECURSIVE SortedByString(_, _)
SortedByString(names, tree_dict) ==
    IF names = <<>> THEN <<>>
    ELSE LET x == names[Len(names)]
             sorted == SortedByString(SubSeq(names, 1, Len(names) - 1), tree_dict)
             ahead == SelectSeq(sorted, LAMBDA c : StrLeq(tree_dict[c].label, tree_dict[x].label))
             behind == SelectSeq(sorted, LAMBDA c : ~StrLeq(tree_dict[c].label, tree_dict[x].label))
         IN  ahead \o <<x>> \o behind

\* the children are left in the order given
order_node_children_lexicographically_AsGiven(tree_dict) == tree_dict

order_node_children_lexicographically(tree_dict) ==
    [node_name \in DOMAIN tree_dict |->
        [tree_dict[node_name] EXCEPT !.children = SortedByString(@, tree_dict)]]

ZOp(kind, arg1, arg2) == [kind |-> kind, arg1 |-> arg1, arg2 |-> arg2]

\* the cheapest of the options, with the scripts of every option that cheap
Cheapest(options) ==
    LET dist == CHOOSE c \in {o.dist : o \in options} : \A o \in options : c <= o.dist
    IN  [dist |-> dist, scripts |-> UNION {o.scripts : o \in {q \in options : q.dist = dist}}]

\* the forest distance of Zhang and Shasha between two ordered forests, given
\* by their roots from left to right: the last root of the first is removed,
\* or the last root of the second is inserted, or the one is mapped to the
\* other and their children forests to each other
RECURSIVE forestdist(_, _, _, _)
forestdist(t1, forest1, t2, forest2) ==
    IF forest1 = <<>> /\ forest2 = <<>> THEN [dist |-> 0, scripts |-> {{}}]
    ELSE LET node1 == forest1[Len(forest1)]
             node2 == forest2[Len(forest2)]
             rest1 == SubSeq(forest1, 1, Len(forest1) - 1)
             rest2 == SubSeq(forest2, 1, Len(forest2) - 1)
             zss_node1 == ZssNode(zss_label(t1[node1], cooking_verbs_to_categories), <<>>)
             zss_node2 == ZssNode(zss_label(t2[node2], cooking_verbs_to_categories), <<>>)
             removed == forestdist(t1, rest1 \o t1[node1].children, t2, forest2)
             inserted == forestdist(t1, forest1, t2, rest2 \o t2[node2].children)
             below == forestdist(t1, t1[node1].children, t2, t2[node2].children)
             beside == forestdist(t1, rest1, t2, rest2)
             cost == update_cost(zss_node1, zss_node2)
             kind == IF cost = 0 THEN "match" ELSE "update"
             remove_option ==
                 IF forest1 = <<>> THEN {}
                 ELSE {[dist |-> removed.dist + remove_cost(zss_node1),
                        scripts |-> {script \cup {ZOp("remove", node1, NoNode)} :
                                        script \in removed.scripts}]}
             insert_option ==
                 IF forest2 = <<>> THEN {}
                 ELSE {[dist |-> inserted.dist + insertion_cost(zss_node2),
                        scripts |-> {script \cup {ZOp("insert", NoNode, node2)} :
                                        script \in inserted.scripts}]}
             update_option ==
                 IF forest1 = <<>> \/ forest2 = <<>> THEN {}
                 ELSE {[dist |-> below.dist + beside.dist + cost,
                        scripts |-> {script1 \cup script2 \cup {ZOp(kind, node1, node2)} :
                                        script1 \in below.scripts, script2 \in beside.scripts}]}
         IN  Cheapest(remove_option \cup insert_option \cup update_option)

TreeRoot(tree_dict) == CHOOSE n \in DOMAIN tree_dict : tree_dict[n].root

\* distance(T1, T2, ..., return_operations=True): the distance and the
\* operations of any one cheapest script
distance(t1, t2) ==
    LET cheapest == forestdist(t1, <<TreeRoot(t1)>>, t2, <<TreeRoot(t2)>>)
    IN  {[dist |-> cheapest.dist, operations |-> script] : script \in cheapest.scripts}

\* ------------------------------------------------------------------------
\* The pure functions of the engine, called on their own: the arguments are
\* drawn from bounded sets, one step applies the function
\* ------------------------------------------------------------------------

MaxOps == 3

NodeNames_a == {"x_a", "y_a"}

NodeNames_b == {"x_b", "y_b"}

\* the concise operations over those names: ADD of a target node, DEL of a
\* source node, UPDATE of a source node to a target node
OperationPool ==
    {SOp("ADD", b, NoNode) : b \in NodeNames_b}
        \cup {SOp("DEL", a, NoNode) : a \in NodeNames_a}
        \cup {SOp("UPDATE", a, b) : a \in NodeNames_a, b \in NodeNames_b}

\* the names an operation mentions
Mentions(op) == {op.node} \cup (IF op.new = NoNode THEN {} ELSE {op.new})

\* operation lists as get_concise_operations produces them: a node is the
\* subject of at most one operation
OperationLists ==
    {ops \in UNION {[1..n -> OperationPool] : n \in 0..MaxOps} :
        \A p, q \in 1..Len(ops) : p # q => Mentions(ops[p]) \cap Mentions(ops[q]) = {}}

ShuffleFrames ==
    {[fn |-> "shuffle_operation_order", core_ingr_names |-> c, structure_ingr_names |-> t,
      short_operations |-> ops, returned |-> FALSE, ret |-> <<>>] :
        c \in SUBSET NodeNames_b, t \in SUBSET NodeNames_a, ops \in OperationLists}

MaxCount == 13

\* the cut may fall anywhere up to the end of the list
index_of_interest_UpToEnd(len) == (len \div 6)..len

\* random.randint(1*len(short_operations)//6, 5*len(short_operations)//6):
\* the values the cut index can take for a list of len operations
index_of_interest(len) == ((1 * len) \div 6)..((5 * len) \div 6)

CutFrames ==
    {[fn |-> "index_of_interest", len |-> n, returned |-> FALSE, ret |-> 0] : n \in 0..MaxCount}

MaxLabelLen == 2

LabelChars == {"a", "b", "1"}

Labels == UNION {[1..n -> LabelChars] : n \in 1..MaxLabelLen}

\* tree nodes as far as the cost model reads them
CostNodes ==
    {[label |-> l, type |-> "action", abstr |-> "x"] : l \in Labels}
        \cup {[label |-> l, type |-> "ingredient", abstr |-> a] : l \in Labels, a \in {"x", "y"}}

CostFrames ==
    {[fn |-> "update_cost", node1 |-> n1, node2 |-> n2, returned |-> FALSE, ret |-> 0] :
        n1 \in CostNodes, n2 \in CostNodes}

\* ingredients of a baked dish: flour is a grain, the other three are sweet
Pantry ==
    {[a |-> "flour_a", b |-> "flour_b", label |-> <<"f", "l", "o", "u", "r">>, abstr |-> "grain"],
     [a |-> "sugar_a", b |-> "sugar_b", label |-> <<"s", "u", "g", "a", "r">>, abstr |-> "sweet"],
     [a |-> "chocolate_a", b |-> "chocolate_b", label |-> <<"c", "h", "o", "c", "o", "l", "a", "t", "e">>, abstr |-> "sweet"],
     [a |-> "syrup_a", b |-> "syrup_b", label |-> <<"s", "y", "r", "u", "p">>, abstr |-> "sweet"]}

Bake == <<"b", "a", "k", "e">>

\* bake with two ingredients, the children in the order the recipe gave them
BakedDishes_a ==
    {"bake_a" :> Node(Bake, "action", "", TRUE, NoNode, <<first.a, second.a>>)
        @@ first.a :> Node(first.label, "ingredient", first.abstr, FALSE, "bake_a", <<>>)
        @@ second.a :> Node(second.label, "ingredient", second.abstr, FALSE, "bake_a", <<>>) :
     first \in Pantry, second \in Pantry}

BakedDishes_b ==
    {"bake_b" :> Node(Bake, "action", "", TRUE, NoNode, <<first.b, second.b>>)
        @@ first.b :> Node(first.label, "ingredient", first.abstr, FALSE, "bake_b", <<>>)
        @@ second.b :> Node(second.label, "ingredient", second.abstr, FALSE, "bake_b", <<>>) :
     first \in Pantry, second \in Pantry}

\* a dish holds three nodes: its two ingredients differ
DistanceFrames ==
    {[fn |-> "distance", t1 |-> t1, t2 |-> t2, returned |-> FALSE, ret |-> 0] :
        t1 \in {t \in BakedDishes_a : Cardinality(DOMAIN t) = 3},
        t2 \in {t \in BakedDishes_b : Cardinality(DOMAIN t) = 3}}

NodeCostFrames ==
    {[fn |-> f, node |-> n, returned |-> FALSE, ret |-> 0] :
        f \in {"insertion_cost", "remove_cost"}, n \in CostNodes}

MaxVersions == 2

\* every recipe is taken for a tree
is_tree_Unchecked(tree_dict) == TRUE

\* the flag verify_and_correct_single_recipe_translation stores with a recipe:
\* no node other than the root is without a parent
is_tree(tree_dict) ==
    \A node_name \in DOMAIN tree_dict :
        tree_dict[node_name].parent = NoNode => tree_dict[node_name].root

\* recipe trees as the translation leaves them: a dish of two nodes, and the
\* same dish with a further node that hangs on nothing
RecipeTrees ==
    {"i1" :> Node(Bake, "action", "", TRUE, NoNode, <<"flour">>)
        @@ "flour" :> Node(<<"f">>, "ingredient", "grain", FALSE, "i1", <<>>),
     "i1" :> Node(Bake, "action", "", TRUE, NoNode, <<"flour">>)
        @@ "flour" :> Node(<<"f">>, "ingredient", "grain", FALSE, "i1", <<>>)
        @@ "sugar" :> Node(<<"s">>, "ingredient", "sweet", FALSE, NoNode, <<>>),
     "i1" :> Node(Bake, "action", "", TRUE, NoNode, <<"flour">>)
        @@ "flour" :> Node(<<"f">>, "ingredient", "grain", FALSE, "i1", <<>>)
        @@ "i0" :> Node(<<"a">>, "action", "", FALSE, NoNode, <<"sugar">>)
        @@ "sugar" :> Node(<<"s">>, "ingredient", "sweet", FALSE, "i0", <<>>)}

\* one pair of recipes in sampled_recipes_parsed, each with its stored flag
CombineFrames ==
    {[fn |-> "combine_two_dishes", tree_dict1 |-> t1, tree_dict2 |-> t2,
      reverse_transformation |-> r, versions |-> v, returned |-> FALSE, ret |-> 0] :
        t1 \in RecipeTrees, t2 \in RecipeTrees, r \in BOOLEAN, v \in 1..MaxVersions}

\* combine_two_dishes for one pair of recipes: the number of calls of
\* create_single_combination, the keys of combinations_dict, and whether an
\* exception left the function
combine_two_dishes(tree_dict1, tree_dict2, reverse_transformation, versions) ==
    IF is_tree(tree_dict1) /\ is_tree(tree_dict2)
    THEN [raised |-> FALSE,
          calls |-> IF reverse_transformation THEN 2 * versions ELSE versions,
          combinations |-> {<<"A_to_B", v>> : v \in 1..versions}
                              \cup (IF reverse_transformation
                                    THEN {<<"B_to_A", v>> : v \in 1..versions} ELSE {})]
    ELSE [raised |-> FALSE, calls |-> 0, combinations |-> {}]

\* remove_node_from_tree_dict: the working tree and the script afterwards
remove_node_from_tree_dict(node_name, tree_dict, operation_list) ==
    IF node_name = NoNode
    THEN [tree_dict |-> tree_dict, operation_list |-> operation_list]
    ELSE LET recorded == operation_list \o <<COp("remove", node_name, NoNode, <<>>)>> IN
         IF node_name \notin DOMAIN tree_dict
         THEN [tree_dict |-> tree_dict, operation_list |-> recorded]
         ELSE LET parent_name == tree_dict[node_name].parent
                  children == tree_dict[node_name].children
                  parent_children ==
                      RemoveFirst(tree_dict[parent_name].children, node_name) \o children
                  t1 == IF parent_name # NoNode
                        THEN [tree_dict EXCEPT ![parent_name].children =
                                                   SortedByString(parent_children, tree_dict)]
                        ELSE tree_dict
                  t2 == [n \in DOMAIN t1 |->
                            IF n \in Range(children)
                            THEN [t1[n] EXCEPT !.parent = parent_name] ELSE t1[n]]
              IN  [tree_dict |-> Del(t2, node_name), operation_list |-> recorded]

\* working trees of five nodes, every children list in label order
WorkingTrees ==
    {"n0" :> Node(<<"m">>, "action", "", TRUE, NoNode, <<"n1", "n2">>)
        @@ "n1" :> Node(<<"b">>, "action", "", FALSE, "n0", <<"n3", "n4">>)
        @@ "n2" :> Node(<<"c">>, "ingredient", "x", FALSE, "n0", <<>>)
        @@ "n3" :> Node(first, "ingredient", "x", FALSE, "n1", <<>>)
        @@ "n4" :> Node(second, "ingredient", "x", FALSE, "n1", <<>>) :
     first \in {<<"a">>, <<"c">>}, second \in {<<"c">>, <<"d">>}}

RemoveFrames ==
    {[fn |-> "remove_node_from_tree_dict", node_name |-> n, tree_dict |-> t,
      returned |-> FALSE, ret |-> 0] :
        n \in {"n0", "n1", "n2", "n3", "n4", "n9", NoNode}, t \in WorkingTrees}

\* ------------------------------------------------------------------------
\* Preparation of a stored tree.  Node names are strings here (sequences of
\* characters); None is the empty name, which "if parent" takes alike.
\* ------------------------------------------------------------------------

NoName == <<>>

\* str(i) for one digit
Str(number) == <<Alphabet[number + 1]>>

\* handle_same_labels: the nodes that share a label get the label followed by
\* their position among them, in the order of the dictionary's keys
handle_same_labels(tree_dict, keys) ==
    [node_name \in DOMAIN tree_dict |->
        LET node_names == SelectSeq(keys, LAMBDA other :
                                    tree_dict[other].label = tree_dict[node_name].label)
            place == CHOOSE p \in 1..Len(node_names) : node_names[p] = node_name
        IN  IF Len(node_names) > 1
            THEN [tree_dict[node_name] EXCEPT !.label = @ \o Str(place)]
            ELSE tree_dict[node_name]]

\* node_name + "_" + suffix
Suffixed(node_name, suffix) == node_name \o <<"_">> \o suffix

\* the parent entries keep the old names
add_suffix_to_all_node_names_ParentsKept(tree_dict, suffix) ==
    [new_name \in {Suffixed(node_name, suffix) : node_name \in DOMAIN tree_dict} |->
        LET node_name == CHOOSE n \in DOMAIN tree_dict : Suffixed(n, suffix) = new_name
        IN  [tree_dict[node_name] EXCEPT
                !.children = [p \in 1..Len(@) |-> Suffixed(@[p], suffix)]]]

add_suffix_to_all_node_names(tree_dict, suffix) ==
    [new_name \in {Suffixed(node_name, suffix) : node_name \in DOMAIN tree_dict} |->
        LET node_name == CHOOSE n \in DOMAIN tree_dict : Suffixed(n, suffix) = new_name
        IN  [tree_dict[node_name] EXCEPT
                !.parent = IF @ # NoName THEN Suffixed(@, suffix) ELSE @,
                !.children = [p \in 1..Len(@) |-> Suffixed(@[p], suffix)]]]

\* prepare_tree_dict_for_recombination, with the tree after each of its steps
prepare_tree_dict_for_recombination(tree_dict, keys, suffix) ==
    LET labelled == handle_same_labels(tree_dict, keys)
        suffixed == add_suffix_to_all_node_names(labelled, suffix)
    IN  [labelled |-> labelled, suffixed |-> suffixed,
         prepared |-> order_node_children_lexicographically(suffixed)]

\* the first lines of create_single_combination for one of the two recipes:
\* the prepared tree, and the tree left in sampled_recipes.  The three steps
\* write into the node dictionaries of their argument, which the renamed
\* dictionary shares.
PreparedCopy(stored, keys, suffix, address) ==
    LET tree_dict == deepcopy(stored, address)
        steps == prepare_tree_dict_for_recombination(tree_dict.value, keys, suffix)
        left == [node_name \in DOMAIN tree_dict.value |->
                    steps.prepared[Suffixed(node_name, suffix)]]
    IN  [steps |-> steps, stored |-> Afterwards(stored, tree_dict, left)]

\* stored recipe trees with the order of their keys; "n_a" is a name of its
\* own that ends like a renamed "n", and "s1" a label of its own that ends
\* like a numbered "s"
StoredTrees ==
    {[keys |-> <<<<"n">>, <<"m">>, <<"n", "_", "a">>>>,
      tree_dict |-> <<"n">> :> Node(<<"b">>, "action", "", TRUE, NoName,
                                    <<<<"m">>, <<"n", "_", "a">>>>)
                 @@ <<"m">> :> Node(<<"s">>, "ingredient", "sweet", FALSE, <<"n">>, <<>>)
                 @@ <<"n", "_", "a">> :> Node(<<"f">>, "ingredient", "grain", FALSE, <<"n">>, <<>>)],
     [keys |-> <<<<"n", "_", "a">>, <<"n">>, <<"m">>>>,
      tree_dict |-> <<"m">> :> Node(<<"b">>, "action", "", TRUE, NoName,
                                    <<<<"n">>, <<"n", "_", "a">>>>)
                 @@ <<"n">> :> Node(<<"s">>, "ingredient", "sweet", FALSE, <<"m">>, <<>>)
                 @@ <<"n", "_", "a">> :> Node(<<"s">>, "ingredient", "sweet", FALSE, <<"m">>, <<>>)],
     [keys |-> <<<<"m">>, <<"n">>, <<"n", "_", "a">>>>,
      tree_dict |-> <<"m">> :> Node(<<"b">>, "action", "", TRUE, NoName, <<<<"n">>>>)
                 @@ <<"n">> :> Node(<<"c">>, "action", "", FALSE, <<"m">>, <<<<"n", "_", "a">>>>)
                 @@ <<"n", "_", "a">> :> Node(<<"s">>, "ingredient", "sweet", FALSE, <<"n">>, <<>>)],
     [keys |-> <<<<"m">>, <<"n">>, <<"n", "_", "a">>, <<"k">>>>,
      tree_dict |-> <<"m">> :> Node(<<"b">>, "action", "", TRUE, NoName,
                                    <<<<"n">>, <<"n", "_", "a">>, <<"k">>>>)
                 @@ <<"n">> :> Node(<<"s">>, "ingredient", "sweet", FALSE, <<"m">>, <<>>)
                 @@ <<"n", "_", "a">> :> Node(<<"s">>, "ingredient", "sweet", FALSE, <<"m">>, <<>>)
                 @@ <<"k">> :> Node(<<"s", "1">>, "ingredient", "sweet", FALSE, <<"m">>, <<>>)],
     [keys |-> <<<<"n">>>>,
      tree_dict |-> <<"n">> :> Node(<<"s">>, "ingredient", "sweet", TRUE, NoName, <<>>)]}

PrepareFrames ==
    {[fn |-> "prepare_tree_dict_for_recombination", recipe1 |-> r1, recipe2 |-> r2,
      returned |-> FALSE, ret |-> 0] : r1 \in StoredTrees, r2 \in StoredTrees}

\* ------------------------------------------------------------------------
\* create_dot_code_for_tree.  The text is the list of its lines; a line is a
\* string in which every fixed piece of the format is one symbol.
\* ------------------------------------------------------------------------

INGR_ABSTR_COLOR == "darkorchid"
INGR_STRUCTURE_COLOR == "deeppink3"
INGR_CORE_COLOR == "dodgerblue4"
ACTION_ABSTR_COLOR == "springgreen4"

\* the line of one node
NodeLine(tree_dict, node) ==
    LET label == remove_digits(tree_dict[node].label) IN
    IF tree_dict[node].type = "ingredient"
    THEN <<"\t">> \o node \o <<"[label=<">> \o label
            \o <<"<br /> <font color=\"", INGR_ABSTR_COLOR, "\" point-size=\"10\">",
                 tree_dict[node].abstr, "</font>">>
            \o (IF "structure" \in tree_dict[node].extra_info
                THEN <<"<br /> <font color=\"", INGR_STRUCTURE_COLOR,
                       "\" point-size=\"10\">(structure)</font>">>
                ELSE <<>>)
            \o (IF "core" \in tree_dict[node].extra_info
                THEN <<"<br /> <font color=\"", INGR_CORE_COLOR,
                       "\" point-size=\"10\">(core)</font>">>
                ELSE <<>>)
            \o <<"> shape=box", "];\n">>
    ELSE <<"\t">> \o node \o <<" [label=<">> \o label
            \o <<"<br /> <font color=\"", ACTION_ABSTR_COLOR, "\" point-size=\"10\">",
                 tree_dict[node].abstr, "</font>>", "];\n">>

\* the edge points from the node to its child
EdgeLine_ParentToChild(child, node) == <<"\t">> \o node \o <<" -> ">> \o child \o <<";\n">>

EdgeLine(child, node) == <<"\t">> \o child \o <<" -> ">> \o node \o <<";\n">>

\* "for node in tree_dict": the node lines in the order of the keys
RECURSIVE NodeLines(_, _)
NodeLines(tree_dict, keys) ==
    IF keys = <<>> THEN <<>>
    ELSE <<NodeLine(tree_dict, Head(keys))>> \o NodeLines(tree_dict, Tail(keys))

\* "for node in tree_dict: for child in children": the edge lines
RECURSIVE EdgeLines(_, _)
EdgeLines(tree_dict, keys) ==
    IF keys = <<>> THEN <<>>
    ELSE [p \in 1..Len(tree_dict[Head(keys)].children) |->
             EdgeLine(tree_dict[Head(keys)].children[p], Head(keys))]
         \o EdgeLines(tree_dict, Tail(keys))

\* the text, and the tree as the call leaves it (the tree is only read)
create_dot_code_for_tree(tree_dict, keys) ==
    [dot_code_str |-> <<<<"digraph G {\n">>, <<"\trankdir=BT ratio=auto;\n">>>>
                         \o NodeLines(tree_dict, keys) \o EdgeLines(tree_dict, keys)
                         \o <<<<"}">>>>,
     tree_dict |-> tree_dict]

\* the stored trees, as stored or with their labels made unique, with the
\* ingredients tagged as core or structural or not at all
DotFrames ==
    {[fn |-> "create_dot_code_for_tree", keys |-> r.keys,
      tree_dict |-> [n \in DOMAIN r.tree_dict |->
                        (IF unique THEN handle_same_labels(r.tree_dict, r.keys)[n]
                                   ELSE r.tree_dict[n])
                        @@ [extra_info |-> IF r.tree_dict[n].type = "ingredient"
                                           THEN extra ELSE {}]],
      returned |-> FALSE, ret |-> 0] :
        r \in StoredTrees, unique \in BOOLEAN, extra \in SUBSET {"core", "structure"}}

\* ------------------------------------------------------------------------
\* get_concise_operations on the text of the lines.  A line is a string: a
\* sequence of symbols, the words of the line format and " " and "," among
\* them.  A node name is one symbol, unless it begins with a word of the line
\* format (the ingredient matcha): then that word is its first symbol.
\* ------------------------------------------------------------------------

Symbols(name) == IF name = "matcha_a" THEN <<"match", "a_a">> ELSE <<name>>

\* the string that concretize_tree_edit_operations writes for an operation
OperationText(operation) ==
    LET node == Symbols(operation.node) IN
    CASE operation.kind = "insert" -> <<"insert", " ">> \o node
      [] operation.kind = "insert_child" ->
            <<"insert", " ">> \o node \o <<" ", "child", " ", "of", " ">> \o Symbols(operation.ref)
      [] operation.kind = "insert_father" ->
            <<"insert", " ">> \o node \o <<" ", "father", " ", "of", " ">>
                \o Join([p \in 1..Len(operation.names) |-> Symbols(operation.names[p])], ",")
      [] operation.kind = "remove" -> <<"remove", " ">> \o node
      [] operation.kind = "update" ->
            <<"update", " ">> \o node \o <<" ", "label", " ", "to", " ">>
                \o Symbols(operation.ref) \o <<" ", "label">>
      [] operation.kind = "match" ->
            <<"match", " ">> \o node \o <<" ", "to", " ">> \o Symbols(operation.ref)
      [] OTHER -> node \o <<" ", "child", " ", "of", " ">> \o Symbols(operation.ref)

\* str.startswith(prefix)
startswith(str, prefix) ==
    Len(str) >= Len(prefix) /\ SubSeq(str, 1, Len(prefix)) = prefix

\* spltd[1], or spltd[4] of an update line, is past the end of the list
ConciseRaises(operation) ==
    \/ Len(Split(operation, " ")) < 2
    \/ startswith(operation, <<"update">>) /\ Len(Split(operation, " ")) < 5

\* update lines are passed over
ConciseStep_UpdateDropped(operation) ==
    LET spltd == Split(operation, " ")
        node_name == spltd[2]
    IN  IF startswith(operation, <<"insert">>) THEN <<<<"ADD", " ">> \o node_name>>
        ELSE IF startswith(operation, <<"remove">>) THEN <<<<"DEL", " ">> \o node_name>>
        ELSE <<>>

\* the body of the loop: what one line adds to concise_operations
ConciseStep(operation) ==
    LET spltd == Split(operation, " ")
        node_name == spltd[2]
    IN  IF startswith(operation, <<"insert">>) THEN <<<<"ADD", " ">> \o node_name>>
        ELSE IF startswith(operation, <<"remove">>) THEN <<<<"DEL", " ">> \o node_name>>
        ELSE IF startswith(operation, <<"update">>)
        THEN <<<<"UPDATE", " ">> \o node_name \o <<" ">> \o spltd[5]>>
        ELSE <<>>

\* the list that get_concise_operations returns for the text of the lines
RECURSIVE concise_operations(_)
concise_operations(all_operations) ==
    IF all_operations = <<>> THEN <<>>
    ELSE ConciseStep(Head(all_operations)) \o concise_operations(Tail(all_operations))

\* a script with a line that attaches an orphan whose name begins with "match"
MatchaScript ==
    <<COp("insert_father", "n0_b", NoNode, <<"n1_a", "matcha_a">>),
      COp("update", "n1_a", "n1_b", <<>>),
      COp("match", "matcha_a", "n2_b", <<>>),
      COp("child_of", "matcha_a", "n0_b", <<>>),
      COp("remove", "n0_a", NoNode, <<>>)>>

\* the scripts of the catalogue and their parts
Scripts ==
    UNION {{SubSeq(script, first, last_) : first \in 1..(Len(script) + 1), last_ \in 0..Len(script)}
           : script \in {Scenarios[s].all_operations : s \in 1..Len(Scenarios)}
                        \cup {MatchaScript}}

ConciseFrames ==
    {[fn |-> "get_concise_operations", script |-> script,
      all_operations |-> [p \in 1..Len(script) |-> OperationText(script[p])],
      returned |-> FALSE, ret |-> 0] : script \in Scripts}

Frames ==
    ShuffleFrames \cup CutFrames \cup CostFrames \cup NodeCostFrames \cup DistanceFrames
        \cup CombineFrames \cup RemoveFrames \cup PrepareFrames \cup DotFrames
        \cup ConciseFrames

\* apply_tree_edits is not running
AtRest ==
    /\ scn = 0
    /\ short_operations = <<>>
    /\ intermediate_tree = <<>>
    /\ tracking_tree = <<>>
    /\ postponed_operations = <<>>
    /\ pc = "idle"
    /\ i = 0
    /\ k = 0
    /\ last = NoCall
    /\ pass_start = <<>>
    /\ retried = <<>>

CallInit == AtRest /\ frame \in Frames

Return(value) ==
    /\ frame' = [frame EXCEPT !.returned = TRUE, !.ret = value]
    /\ UNCHANGED <<scn, short_operations, intermediate_tree, tracking_tree,
                   postponed_operations, pc, i, k, last, pass_start, retried>>

CallShuffle ==
    /\ frame.fn = "shuffle_operation_order"
    /\ ~frame.returned
    /\ \E short_operations_mixed \in shuffle_operation_order(frame.core_ingr_names,
                                                             frame.structure_ingr_names,
                                                             frame.short_operations) :
           Return(short_operations_mixed)

CallCut ==
    /\ frame.fn = "index_of_interest"
    /\ ~frame.returned
    /\ \E c \in index_of_interest(frame.len) : Return(c)

CallUpdateCost ==
    /\ frame.fn = "update_cost"
    /\ ~frame.returned
    /\ Return(update_cost(ZssNode(zss_label(frame.node1, cooking_verbs_to_categories), <<>>),
                          ZssNode(zss_label(frame.node2, cooking_verbs_to_categories), <<>>)))

CallInsertionCost ==
    /\ frame.fn = "insertion_cost"
    /\ ~frame.returned
    /\ Return(insertion_cost(ZssNode(zss_label(frame.node, cooking_verbs_to_categories), <<>>)))

CallRemoveCost ==
    /\ frame.fn = "remove_cost"
    /\ ~frame.returned
    /\ Return(remove_cost(ZssNode(zss_label(frame.node, cooking_verbs_to_categories), <<>>)))

\* the two trees are prepared (children sorted by label) and compared
CallDistance ==
    /\ frame.fn = "distance"
    /\ ~frame.returned
    /\ \E result \in distance(order_node_children_lexicographically(frame.t1),
                               order_node_children_lexicographically(frame.t2)) :
           Return(result)

CallCombine ==
    /\ frame.fn = "combine_two_dishes"
    /\ ~frame.returned
    /\ Return(combine_two_dishes(frame.tree_dict1, frame.tree_dict2,
                                 frame.reverse_transformation, frame.versions))

CallRemove ==
    /\ frame.fn = "remove_node_from_tree_dict"
    /\ ~frame.returned
    /\ Return(remove_node_from_tree_dict(frame.node_name, frame.tree_dict, <<>>))

\* create_single_combination up to the two prepared trees
CallPrepare ==
    /\ frame.fn = "prepare_tree_dict_for_recombination"
    /\ ~frame.returned
    /\ LET t1 == PreparedCopy(Obj(1, frame.recipe1.tree_dict), frame.recipe1.keys, <<"a">>, 3)
           t2 == PreparedCopy(Obj(2, frame.recipe2.tree_dict), frame.recipe2.keys, <<"b">>, 4)
       IN  Return([t1 |-> t1.steps, t2 |-> t2.steps, stored1 |-> t1.stored, stored2 |-> t2.stored])

CallDot ==
    /\ frame.fn = "create_dot_code_for_tree"
    /\ ~frame.returned
    /\ Return(create_dot_code_for_tree(frame.tree_dict, frame.keys))

CallConcise ==
    /\ frame.fn = "get_concise_operations"
    /\ ~frame.returned
    /\ Return([raised |-> \E p \in 1..Len(frame.all_operations) :
                              ConciseRaises(frame.all_operations[p]),
               concise_operations |->
                   IF \E p \in 1..Len(frame.all_operations) :
                          ConciseRaises(frame.all_operations[p])
                   THEN <<>>
                   ELSE concise_operations(frame.all_operations)])

CallNext ==
    \/ CallConcise
    \/ CallDot
    \/ CallPrepare
    \/ CallCombine
    \/ CallRemove
    \/ CallShuffle
    \/ CallCut
    \/ CallUpdateCost
    \/ CallInsertionCost
    \/ CallRemoveCost
    \/ CallDistance

Calls == CallInit /\ [][CallNext]_vars

\* a request, or one function called on its own
EngineInit == Init \/ CallInit

EngineNext == Next \/ CallNext

Engine == EngineInit /\ [][EngineNext]_vars

\* ------------------------------------------------------------------------
\* cause_taste_collisions (evaluate_taste.py).  Ingredients are strings
\* (sequences of characters).  Which pairs occur rarely together in the recipe
\* data and do not pair well is a matter of the data files: any subset of the
\* pairs may come out as problematic.
\* ------------------------------------------------------------------------

\* sorted(strs) for a list of strings
RECURSIVE SortedStrings(_)
SortedStrings(strs) ==
    IF strs = <<>> THEN <<>>
    ELSE LET x == strs[Len(strs)]
             sorted == SortedStrings(SubSeq(strs, 1, Len(strs) - 1))
         IN  SelectSeq(sorted, LAMBDA s : StrLeq(s, x)) \o <<x>>
                 \o SelectSeq(sorted, LAMBDA s : ~StrLeq(s, x))

\* sorted(items, key=...): a stable sort of the items by their integer keys,
\* keys[p] being the key of items[p]
StableByKey(items, keys) ==
    LET rank(p) == 1 + Cardinality({q \in 1..Len(items) :
                                       keys[q] < keys[p] \/ (keys[q] = keys[p] /\ q < p)})
    IN  [r \in 1..Len(items) |-> items[CHOOSE p \in 1..Len(items) : rank(p) = r]]

\* the two nested loops over the sorted ingredients: every pair (i, j), i < j
RECURSIVE IngredientPairs(_)
IngredientPairs(recipe_ingredients) ==
    IF Len(recipe_ingredients) < 2 THEN <<>>
    ELSE [j \in 1..(Len(recipe_ingredients) - 1) |->
             <<recipe_ingredients[1], recipe_ingredients[j + 1]>>]
         \o IngredientPairs(Tail(recipe_ingredients))

\* the keys of ingr_problematic_pair_count in the order of their insertion
RECURSIVE FirstSeen(_)
FirstSeen(ingrs) ==
    IF ingrs = <<>> THEN <<>>
    ELSE LET before == FirstSeen(SubSeq(ingrs, 1, Len(ingrs) - 1))
             x == ingrs[Len(ingrs)]
         IN  IF x \in Range(before) THEN before ELSE before \o <<x>>

\* get_ingr_collision_count: the items of the returned dictionary, in order
get_ingr_collision_count(problematic_pairs, preferred_order) ==
    LET ingrs == [p \in 1..(2 * Len(problematic_pairs)) |->
                     problematic_pairs[(p + 1) \div 2][2 - (p % 2)]]
        count(ingr) == Cardinality({p \in 1..Len(ingrs) : ingrs[p] = ingr})
        inserted == [p \in 1..Len(FirstSeen(ingrs)) |->
                        [ingr |-> FirstSeen(ingrs)[p], count |-> count(FirstSeen(ingrs)[p])]]
        by_preference == StableByKey(inserted,
                             [p \in 1..Len(inserted) |->
                                 IF inserted[p].ingr \in Range(preferred_order) THEN 1 ELSE 0])
    IN  StableByKey(by_preference, [p \in 1..Len(by_preference) |-> 0 - by_preference[p].count])

\* only the pairs whose first ingredient it is are dropped
WithoutIngredient_FirstOnly(problematic_pairs, most_problematic_ingr) ==
    SelectSeq(problematic_pairs, LAMBDA pair : most_problematic_ingr # pair[1])

\* [pair for pair in problematic_pairs if most_problematic_ingr not in pair]
WithoutIngredient(problematic_pairs, most_problematic_ingr) ==
    SelectSeq(problematic_pairs, LAMBDA pair : most_problematic_ingr \notin {pair[1], pair[2]})

\* recipe ingredient lists as the caller passes them, and preferred orders
TasteRecipes ==
    {<<>>, <<<<"h", "a", "m">>>>,
     <<<<"l", "i", "m", "e">>, <<"f", "i", "g">>>>,
     <<<<"h", "a", "m">>, <<"f", "i", "g">>, <<"h", "a", "m">>>>,
     <<<<"l", "i", "m", "e">>, <<"k", "a", "l", "e">>, <<"f", "i", "g">>, <<"h", "a", "m">>>>}

PreferredOrders ==
    {<<>>, <<<<"f", "i", "g">>>>, <<<<"k", "a", "l", "e">>, <<"h", "a", "m">>>>}

\* cause_taste_collisions when it reaches its while loop (lines 352-381)
TasteFrames ==
    UNION {{LET pairs == IngredientPairs(SortedStrings(recipe))
                problematic_pairs == SelectSeq(
                    [p \in 1..Len(pairs) |-> IF p \in collide THEN pairs[p] ELSE <<>>],
                    LAMBDA pair : pair # <<>>)
            IN  [fn |-> "cause_taste_collisions",
                 recipe_ingredients |-> SortedStrings(recipe),
                 preferred_order |-> preferred_order,
                 collisions |-> problematic_pairs,
                 problematic_pairs |-> problematic_pairs,
                 problematic_count |-> get_ingr_collision_count(problematic_pairs, preferred_order),
                 ingr_to_remove |-> <<>>,
                 returned |-> FALSE, ret |-> <<>>]
            : collide \in SUBSET (1..Len(IngredientPairs(recipe)))}
           : recipe \in TasteRecipes, preferred_order \in PreferredOrders}

TasteInit == AtRest /\ frame \in TasteFrames

\* the body of "while problematic_pairs"
RemoveMostProblematic ==
    /\ frame.fn = "cause_taste_collisions"
    /\ ~frame.returned
    /\ frame.problematic_pairs # <<>>
    /\ LET most_problematic_ingr == frame.problematic_count[1].ingr
           problematic_pairs == WithoutIngredient(frame.problematic_pairs, most_problematic_ingr)
       IN  frame' = [frame EXCEPT
                        !.problematic_pairs = problematic_pairs,
                        !.ingr_to_remove = @ \o <<most_problematic_ingr>>,
                        !.problematic_count =
                            get_ingr_collision_count(problematic_pairs, frame.preferred_order)]
    /\ UNCHANGED <<scn, short_operations, intermediate_tree, tracking_tree,
                   postponed_operations, pc, i, k, last, pass_start, retried>>

\* return ingr_to_remove
ReturnRemoved ==
    /\ frame.fn = "cause_taste_collisions"
    /\ ~frame.returned
    /\ frame.problematic_pairs = <<>>
    /\ Return(frame.ingr_to_remove)

TasteNext == RemoveMostProblematic \/ ReturnRemoved

\* the while loop has a pair left
Colliding ==
    frame.fn = "cause_taste_collisions" /\ ~frame.returned /\ frame.problematic_pairs # <<>>

\* The interpreter runs the function to its end: weak fairness of the return
\* and of the loop body, the latter written out with Colliding for the states
\* in which the body can take a step.
Taste ==
    /\ TasteInit /\ [][TasteNext]_vars
    /\ WF_vars(ReturnRemoved)
    /\ ([]<>~Colliding \/ []<><<RemoveMostProblematic>>_vars)

\* ------------------------------------------------------------------------
\* get_single_recipe_initial_translation (translate_to_tree.py).  A string is
\* a sequence of symbols, "" the empty one.  What the external model answers
\* is not the program's choice: a call raises, or call_model has swallowed a
\* rate-limit or API error and returns None, or it returns text.
\* ------------------------------------------------------------------------

MaxTries == 4

\* call_model returned None
NoReply == <<"None">>

\* what a call of call_model that does not raise can return; <fence> stands
\* for the three backquotes that open a code block
ModelReplies ==
    {NoReply,
     <<"a -> i1", "\n", "\n">>,
     <<"<fence>dot", "\n", "b -> i1", "\n", "i1 -> i2", "\n", "\n">>}

\* get_tree_dot_code reads model_code.replace: AttributeError on None
DotCodeRaises(model_code) == model_code = NoReply

\* get_tree_dot_code: the header with the dish (blanks made underscores) and
\* the recipe, the node lines of the recipe (one symbol each here), the
\* lines of the model indented, without the opening fence and without their last
\* four characters, and the closing brace
get_tree_dot_code(recipe_info, dish_name, recipe_id, model_code) ==
    LET RECURSIVE Replaced(_, _, _)
        Replaced(str, old, new) ==
            IF Len(str) < Len(old) THEN str
            ELSE IF SubSeq(str, 1, Len(old)) = old
                 THEN new \o Replaced(SubSeq(str, Len(old) + 1, Len(str)), old, new)
                 ELSE <<Head(str)>> \o Replaced(Tail(str), old, new)
        tree_dot_start ==
            <<"digraph ">> \o Replaced(dish_name, <<" ">>, <<"_">>)
                \o <<"_", recipe_id, " {\n\trankdir=BT ratio=auto\n\n">>
        indented == Replaced(model_code, <<"\n">>, <<"\n", "\t">>)
        unfenced == Replaced(indented, <<"<fence>dot", "\n">>, <<>>)
        tree_dot_edges == <<"\n", "\t">> \o SubSeq(unfenced, 1, Len(unfenced) - 4)
    IN  tree_dot_start \o <<recipe_info.parsed_ingredients, recipe_info.parsed_instructions>>
            \o tree_dot_edges \o <<"\n", "}">>

\* the loop goes on whatever the last call gave
KeepTrying_UntilNoTriesLeft(success, tries) == tries > 0

\* while not success and tries > 0
KeepTrying(success, tries) == ~success /\ tries > 0

\* the function when it reaches its while loop
TranslateFrames ==
    {[fn |-> "get_single_recipe_initial_translation",
      recipe_info |-> recipe.info, dish_name |-> recipe.dish, recipe_id |-> recipe.id,
      tries_given |-> tries, tries |-> tries,
      dot_code |-> <<>>, success |-> FALSE, model_code |-> <<>>,
      calls |-> 0, raised |-> FALSE, returned |-> FALSE, ret |-> <<>>] :
        recipe \in {[dish |-> <<"apple", " ", "cake">>, id |-> "17",
                     info |-> [parsed_ingredients |-> "a", parsed_instructions |-> "i1 i2"]],
                    [dish |-> <<"pesto">>, id |-> "3",
                     info |-> [parsed_ingredients |-> "b", parsed_instructions |-> "i1"]]},
        tries \in 0..MaxTries}

TranslateInit == AtRest /\ frame \in TranslateFrames

Rest ==
    UNCHANGED <<scn, short_operations, intermediate_tree, tracking_tree,
                postponed_operations, pc, i, k, last, pass_start, retried>>

\* one pass of the while loop: the call raises and a try is used up, or it
\* returns and success is set
TryModel ==
    /\ frame.fn = "get_single_recipe_initial_translation"
    /\ ~frame.returned /\ ~frame.raised
    /\ KeepTrying(frame.success, frame.tries)
    /\ \/ frame' = [frame EXCEPT !.calls = @ + 1, !.tries = @ - 1]
       \/ \E reply \in ModelReplies :
              frame' = [frame EXCEPT !.calls = @ + 1, !.model_code = reply, !.success = TRUE]
    /\ Rest

\* after the loop: the DOT code is built from the model's answer, or stays ""
ReturnTranslation ==
    /\ frame.fn = "get_single_recipe_initial_translation"
    /\ ~frame.returned /\ ~frame.raised
    /\ ~KeepTrying(frame.success, frame.tries)
    /\ IF frame.success /\ DotCodeRaises(frame.model_code)
       THEN frame' = [frame EXCEPT !.raised = TRUE]
       ELSE LET dot_code == IF frame.success
                            THEN get_tree_dot_code(frame.recipe_info, frame.dish_name,
                                                   frame.recipe_id, frame.model_code)
                            ELSE frame.dot_code
            IN  frame' = [frame EXCEPT !.dot_code = dot_code, !.returned = TRUE,
                                       !.ret = dot_code]
    /\ Rest

TranslateNext == TryModel \/ ReturnTranslation

Translate == TranslateInit /\ [][TranslateNext]_vars

\* get_formatted_node_label: label, type, and the abstraction of an ingredient;
\* the verb categories of an action are a function of its label
get_formatted_node_label(tree_dict, node_name) ==
    IF tree_dict[node_name].type = "action"
    THEN <<tree_dict[node_name].label, "action">>
    ELSE <<tree_dict[node_name].label, tree_dict[node_name].type, tree_dict[node_name].abstr>>

\* ------------------------------------------------------------------------
\* Properties of the stepwise applier
\* ------------------------------------------------------------------------

Roots(tree) == {n \in DOMAIN tree : tree[n].root}

\* every children entry names a node whose parent is the lister, and every
\* non-root node is listed by its parent
ParentChildrenConsistent(tree) ==
    /\ \A n \in DOMAIN tree : \A c \in Range(tree[n].children) :
           c \in DOMAIN tree /\ tree[c].parent = n
    /\ \A m \in DOMAIN tree : ~tree[m].root =>
           /\ tree[m].parent \in DOMAIN tree
           /\ m \in Range(tree[tree[m].parent].children)

\* the node reached from n by following parent pointers `steps` times
RECURSIVE Climb(_, _, _)
Climb(tree, n, steps) ==
    IF steps = 0 \/ n \notin DOMAIN tree \/ tree[n].parent = NoNode THEN n
    ELSE Climb(tree, tree[n].parent, steps - 1)

\* one connected rooted tree: not empty, one root, and every node climbs to
\* it in fewer steps than there are nodes (so no parent cycle)
IsRootedTree(tree) ==
    /\ DOMAIN tree # {}
    /\ Cardinality(Roots(tree)) = 1
    /\ \A n \in DOMAIN tree : Climb(tree, n, Cardinality(DOMAIN tree) - 1) \in Roots(tree)

\* the outer loop is between two scheduled operations, or the tree was returned
BetweenScheduled == pc \in {"scheduled", "done"}

\* C1: the working tree has exactly one node with root = TRUE after each
\* scheduled operation is handled, and so has the returned tree.
C1_ExactlyOneRoot == BetweenScheduled => Cardinality(Roots(intermediate_tree)) = 1

\* C2: the returned tree is parent/children consistent: every children entry
\* is a node whose parent is the lister, every non-root node is listed by its
\* parent.
C2_ReturnedTreeConsistent == pc = "done" => ParentChildrenConsistent(intermediate_tree)

\* C3: after every applied operation the working tree is one connected rooted
\* tree: not empty, acyclic, every node reaching the single root.
C3_NeverAForest ==
    (last.tag # "none" /\ ~last.postponed /\ pc # "error") => IsRootedTree(intermediate_tree)

\* a step that is one call of handle_one_operation, and the operation it is
\* called with
CallStep == (pc = "scheduled" /\ i' = i + 1) \/ (pc = "retry" /\ k' = k + 1)

CalledOp == IF pc = "scheduled" THEN short_operations[i] ELSE postponed_operations[k]

\* the tracking topology as the properties read it: the marked nodes met
\* first on the way up from n, and first on each way down from n
RECURSIVE MarkedAbove(_, _)
MarkedAbove(tracking, n) ==
    LET up == tracking[n].parent IN
    IF up = NoNode THEN {}
    ELSE IF tracking[up].marked THEN {up}
    ELSE MarkedAbove(tracking, up)

RECURSIVE MarkedBelow(_, _)
MarkedBelow(tracking, n) ==
    UNION {IF tracking[c].marked THEN {c} ELSE MarkedBelow(tracking, c)
           : c \in Range(tracking[n].children)}

Unanchored(tracking, n) == MarkedAbove(tracking, n) = {} /\ MarkedBelow(tracking, n) = {}

RootBreaking(tree, n) == tree[n].parent = NoNode /\ Len(tree[n].children) > 1

\* C4: a DEL of a parentless node with more than one child comes back
\* postponed and leaves the working tree and the tracking copy as they were;
\* a DEL applied on a retry finds its node with at most one child.
C4_RootDelPostponed ==
    [][(CallStep /\ CalledOp.tag = "DEL") =>
          LET id == CalledOp.node IN
          /\ RootBreaking(intermediate_tree, id) =>
                /\ last'.postponed
                /\ intermediate_tree' = intermediate_tree
                /\ tracking_tree' = tracking_tree
                /\ CalledOp \in Range(postponed_operations')
          /\ (pc = "retry" /\ id \notin DOMAIN intermediate_tree') =>
                Len(intermediate_tree[id].children) <= 1]_vars

\* a postponed DEL of the two-child root has been applied on a retry
C4_Witness ==
    /\ last.tag = "DEL" /\ last.retry /\ ~last.postponed
    /\ last.parent = NoNode /\ Len(last.children) = 1
    /\ last.node \notin DOMAIN intermediate_tree

\* C5: an ADD of a node with neither a nearest marked ancestor nor a nearest
\* marked descendant is put on the postponed queue (stays on it when it is a
\* retry) and changes neither the working tree nor the tracking copy.
C5_UnanchoredAddPostponed ==
    [][(CallStep /\ CalledOp.tag = "ADD" /\ Unanchored(tracking_tree, CalledOp.node)) =>
          /\ intermediate_tree' = intermediate_tree
          /\ tracking_tree' = tracking_tree
          /\ postponed_operations' = IF pc = "scheduled"
                                     THEN postponed_operations \o <<CalledOp>>
                                     ELSE postponed_operations]_vars

\* a scheduled ADD was postponed while the working tree still has its nodes
C5_Witness ==
    /\ last.tag = "ADD" /\ last.postponed /\ ~last.retry
    /\ last.parent = NoNode /\ last.children = <<>>
    /\ postponed_operations # <<>>
    /\ postponed_operations[Len(postponed_operations)].node = last.node
    /\ last.node \notin DOMAIN intermediate_tree
    /\ ~tracking_tree[last.node].marked

\* C6: a retry pass retries every operation that was queued when it began,
\* once each and in queue order, and leaves on the queue exactly those whose
\* retry was postponed again.
C6_RetryPassComplete ==
    (pc = "scheduled" /\ last.retry) =>
        /\ [j \in 1..Len(retried) |-> retried[j].op] = pass_start
        /\ postponed_operations =
              [j \in 1..Len(SelectSeq(retried, LAMBDA e : ~e.applied)) |->
                  SelectSeq(retried, LAMBDA e : ~e.applied)[j].op]

C8_OnlyUnsatisfiableDropped ==
    pc = "done" =>
        \A j \in 1..Len(postponed_operations) :
            LET op == postponed_operations[j] IN
            IF op.tag = "ADD" THEN Unanchored(tracking_tree, op.node)
            ELSE RootBreaking(intermediate_tree, op.node)

\* C9: a successful ADD id creates id and marks it in the tracking copy;
\* children(id) is the set of nearest marked descendants, each with parent id;
\* under a nearest marked ancestor p, parent(id) = p, p lists id and none of
\* the adopted nodes; if an adopted node was root, id is root and it is not.
C9_AddEffect ==
    [][(CallStep /\ CalledOp.tag = "ADD" /\ ~Unanchored(tracking_tree, CalledOp.node)) =>
          LET id == CalledOp.node
              adopted == MarkedBelow(tracking_tree, id)
              above == MarkedAbove(tracking_tree, id)
              new == intermediate_tree'
          IN  /\ id \notin DOMAIN intermediate_tree
              /\ id \in DOMAIN new
              /\ tracking_tree'[id].marked
              /\ Range(new[id].children) = adopted
              /\ Len(new[id].children) = Cardinality(adopted)
              /\ \A d \in adopted : new[d].parent = id
              /\ \A p \in above :
                    /\ new[id].parent = p
                    /\ id \in Range(new[p].children)
                    /\ \A d \in adopted : d \notin Range(new[p].children)
              /\ (\E d \in adopted : intermediate_tree[d].root) =>
                    /\ new[id].root
                    /\ \A d \in adopted : ~new[d].root]_vars

\* an ADD was applied between a marked ancestor and a marked descendant
C9_Witness ==
    /\ last.tag = "ADD" /\ ~last.postponed
    /\ last.parent # NoNode /\ last.children # <<>>
    /\ last.node \in DOMAIN intermediate_tree
    /\ intermediate_tree[last.node].parent = last.parent

\* C10: a successful DEL id removes id from the working tree; every former
\* child gets id's former parent, which lists it in place of id, or becomes
\* root when id had no parent; the tracking copy removes and reparents alike.
C10_DelEffect ==
    [][(CallStep /\ CalledOp.tag = "DEL" /\ ~RootBreaking(intermediate_tree, CalledOp.node)) =>
          LET id == CalledOp.node
              up == intermediate_tree[id].parent
              kids == Range(intermediate_tree[id].children)
              tup == tracking_tree[id].parent
              tkids == Range(tracking_tree[id].children)
          IN  /\ id \notin DOMAIN intermediate_tree'
              /\ \A c \in kids :
                    /\ intermediate_tree'[c].parent = up
                    /\ up = NoNode => intermediate_tree'[c].root
                    /\ up # NoNode => c \in Range(intermediate_tree'[up].children)
              /\ up # NoNode => id \notin Range(intermediate_tree'[up].children)
              /\ id \notin DOMAIN tracking_tree'
              /\ \A c \in tkids :
                    /\ tracking_tree'[c].parent = tup
                    /\ tup # NoNode => c \in Range(tracking_tree'[tup].children)
              /\ tup # NoNode => id \notin Range(tracking_tree'[tup].children)]_vars

\* a DEL of an inner node was applied: its child moved up to its parent
C10_Witness ==
    /\ last.tag = "DEL" /\ ~last.postponed
    /\ last.parent # NoNode /\ last.children # <<>>
    /\ last.node \notin DOMAIN intermediate_tree
    /\ last.node \notin DOMAIN tracking_tree
    /\ \A c \in Range(last.children) : intermediate_tree[c].parent = last.parent

\* C11: UPDATE id is never postponed; it sets the node's label and
\* abstraction to those the tracking copy records for id and changes nothing
\* else: same nodes, same parent, children, root and type everywhere, same
\* tracking copy, same queue length unless it is itself a retry.
C11_UpdateEffect ==
    [][(CallStep /\ CalledOp.tag = "UPDATE") =>
          LET id == CalledOp.node IN
          /\ ~last'.postponed
          /\ CalledOp \notin Range(postponed_operations')
          /\ intermediate_tree'[id].label = tracking_tree[id].label
          /\ intermediate_tree'[id].abstr = tracking_tree[id].abstr
          /\ DOMAIN intermediate_tree' = DOMAIN intermediate_tree
          /\ \A n \in DOMAIN intermediate_tree :
                /\ intermediate_tree'[n].parent = intermediate_tree[n].parent
                /\ intermediate_tree'[n].children = intermediate_tree[n].children
                /\ intermediate_tree'[n].root = intermediate_tree[n].root
                /\ intermediate_tree'[n].type = intermediate_tree[n].type
                /\ n # id => intermediate_tree'[n] = intermediate_tree[n]
          /\ tracking_tree' = tracking_tree]_vars

\* an UPDATE was applied and gave the node a label and an abstraction its
\* source tree did not have
C11_Witness ==
    /\ last.tag = "UPDATE" /\ ~last.postponed
    /\ last.node \in DOMAIN intermediate_tree
    /\ intermediate_tree[last.node].label # Scenarios[scn].tree_dict1[last.node].label
    /\ intermediate_tree[last.node].abstr # Scenarios[scn].tree_dict1[last.node].abstr
    /\ intermediate_tree[last.node].label = tracking_tree[last.node].label

\* ------------------------------------------------------------------------
\* Properties of shuffle_operation_order
\* ------------------------------------------------------------------------

Shuffled == frame.fn = "shuffle_operation_order" /\ frame.returned

IsCoreAdd(op) == op.tag = "ADD" /\ op.node \in frame.core_ingr_names

IsStructuralDel(op) == op.tag = "DEL" /\ op.node \in frame.structure_ingr_names

\* the positions of a list that hold an operation satisfying Test
Positions(ops, Test(_)) == {p \in 1..Len(ops) : Test(ops[p])}

\* C12: in the list returned by shuffle_operation_order, whatever the shuffle
\* did, every ADD of a core-ingredient node stands before every DEL of a
\* structural-ingredient node.
C12_CoreAddBeforeStructuralDel ==
    Shuffled =>
        \A p \in Positions(frame.ret, IsCoreAdd) :
            \A q \in Positions(frame.ret, IsStructuralDel) : p < q

\* a call whose input had a structural DEL before a core ADD, and an
\* operation of neither kind
C12_Witness ==
    /\ Shuffled
    /\ \E p \in Positions(frame.short_operations, IsCoreAdd) :
           \E q \in Positions(frame.short_operations, IsStructuralDel) : q < p
    /\ Positions(frame.ret, IsCoreAdd) # {}
    /\ Positions(frame.ret, IsStructuralDel) # {}
    /\ Len(frame.ret) = MaxOps

IsCoreUpdate(op) == op.tag = "UPDATE" /\ op.new \in frame.core_ingr_names

IsStructuralUpdate(op) == op.tag = "UPDATE" /\ op.node \in frame.structure_ingr_names

TouchesCore(op) == IsCoreAdd(op) \/ IsCoreUpdate(op)

TouchesStructure(op) == IsStructuralDel(op) \/ IsStructuralUpdate(op)

Elsewhere(op) == ~TouchesCore(op) /\ ~TouchesStructure(op)

\* out is ahead, then the operations of rest in some order, then behind
Sandwich(out, ahead, rest, behind) ==
    /\ Len(out) = Len(ahead) + Len(rest) + Len(behind)
    /\ SubSeq(out, 1, Len(ahead)) = ahead
    /\ SubSeq(out, Len(out) - Len(behind) + 1, Len(out)) = behind
    /\ \E p \in Arrangements(1..Len(rest)) :
           \A j \in 1..Len(rest) : out[Len(ahead) + j] = rest[p[j]]

\* C13 as stated: the returned list is (a) ++ shuffled(c) ++ (b), with (a)
\* the ADD/UPDATE operations touching core nodes in the relative order of the
\* input list, (b) the DEL/UPDATE operations touching structural nodes in the
\* relative order of the input list, and (c) the rest.
C13_InputOrderKept ==
    Shuffled => Sandwich(frame.ret,
                         SelectSeq(frame.short_operations, TouchesCore),
                         SelectSeq(frame.short_operations, Elsewhere),
                         SelectSeq(frame.short_operations, TouchesStructure))

\* C13, amended: the returned list is (a) ++ shuffled(c) ++ (b), where (a) is
\* the core ADDs in input order followed by the core UPDATEs in input order,
\* and (b) is the structural DELs in input order followed by the structural
\* UPDATEs in input order; an UPDATE of a structural node to a core node is
\* in (a) and in (b).
C13_ScheduledOrder ==
    Shuffled => Sandwich(frame.ret,
                         SelectSeq(frame.short_operations, IsCoreAdd)
                             \o SelectSeq(frame.short_operations, IsCoreUpdate),
                         SelectSeq(frame.short_operations, Elsewhere),
                         SelectSeq(frame.short_operations, IsStructuralDel)
                             \o SelectSeq(frame.short_operations, IsStructuralUpdate))

\* a call whose input had a core UPDATE before a core ADD, and a structural
\* UPDATE before a structural DEL
C13_Witness ==
    /\ Shuffled
    /\ \E p \in Positions(frame.short_operations, IsCoreUpdate) :
           \E q \in Positions(frame.short_operations, IsCoreAdd) : p < q
    /\ \E p \in Positions(frame.short_operations, IsStructuralUpdate) :
           \E q \in Positions(frame.short_operations, IsStructuralDel) : p < q
    /\ Len(frame.ret) > Len(frame.short_operations)

\* ------------------------------------------------------------------------
\* Properties of the cut index
\* ------------------------------------------------------------------------

Cut == frame.fn = "index_of_interest" /\ frame.returned

\* C14 as stated: ceil(N/6) <= c <= floor(5N/6), and for N >= 1 the applied
\* prefix is neither empty nor the whole list.
C14_CeilingToFloor ==
    Cut => /\ frame.len <= 6 * frame.ret
           /\ 6 * frame.ret <= 5 * frame.len
           /\ frame.len >= 1 => (frame.ret >= 1 /\ frame.ret < frame.len)

\* C14, amended: floor(N/6) <= c <= floor(5N/6); for N >= 1 the applied
\* prefix is never the whole list, and for N >= 6 it is never empty.
C14_FloorToFloor ==
    Cut => /\ frame.len < 6 * (frame.ret + 1)
           /\ 6 * frame.ret <= 5 * frame.len
           /\ frame.len >= 1 => frame.ret < frame.len
           /\ frame.len >= 6 => frame.ret >= 1

\* a list that is not empty is cut at 0: nothing is applied
C14_Witness == Cut /\ frame.len >= 1 /\ frame.ret = 0

\* ------------------------------------------------------------------------
\* Properties of the cost model
\* ------------------------------------------------------------------------

Costed == frame.fn = "update_cost" /\ frame.returned

\* a label with its digits left out
RECURSIVE Undigited(_)
Undigited(label) ==
    IF label = <<>> THEN <<>>
    ELSE IF Head(label) \in Digits THEN Undigited(Tail(label))
    ELSE <<Head(label)>> \o Undigited(Tail(label))

SameType == frame.node1.type = frame.node2.type

SameStrippedLabel == Undigited(frame.node1.label) = Undigited(frame.node2.label)

\* C17: update_cost returns 0 exactly when the two nodes have the same type
\* and the same label once all digits are stripped; nodes of different types
\* cost INFTY even when their stripped labels are equal.
C17_ZeroIffSameNode ==
    Costed => /\ frame.ret = 0 <=> (SameType /\ SameStrippedLabel)
              /\ ~SameType => frame.ret = INFTY

\* two nodes of one type whose labels differ only in digits cost 0
C17_Witness ==
    /\ Costed
    /\ SameType
    /\ frame.node1.label # frame.node2.label
    /\ SameStrippedLabel
    /\ frame.ret = 0

\* the categories of a verb; a verb the dictionary does not hold is of the
\* unknown category
Unknown == <<<<"unknown">>>>

Known(node) == Undigited(node.label) \in DOMAIN cooking_verbs_to_categories

DirectCategory(node) ==
    IF Known(node) THEN cooking_verbs_to_categories[Undigited(node.label)].direct_category
    ELSE Unknown

GeneralCategory(node) ==
    IF Known(node) THEN cooking_verbs_to_categories[Undigited(node.label)].general_category
    ELSE Unknown

TableCase == Costed /\ SameType /\ ~SameStrippedLabel

\* C18 as stated: for two nodes of one type with different stripped labels,
\* two actions cost 1 if their direct categories are equal and not the unknown
\* category, else 5 if their general categories are equal, else INFTY; two
\* ingredients cost 5 if their abstraction categories are equal, else INFTY.
C18_Table ==
    TableCase =>
        frame.ret =
            IF frame.node1.type = "action"
            THEN IF /\ DirectCategory(frame.node1) = DirectCategory(frame.node2)
                    /\ DirectCategory(frame.node1) # Unknown
                 THEN 1
                 ELSE IF GeneralCategory(frame.node1) = GeneralCategory(frame.node2) THEN 5
                 ELSE INFTY
            ELSE IF frame.node1.abstr = frame.node2.abstr THEN 5 ELSE INFTY

\* C18, amended: as stated, except that two actions cost 5 only if their
\* general categories are equal and not the unknown category; two verbs of
\* unknown category cost INFTY.
C18_TableKnownOnly ==
    TableCase =>
        frame.ret =
            IF frame.node1.type = "action"
            THEN IF /\ DirectCategory(frame.node1) = DirectCategory(frame.node2)
                    /\ DirectCategory(frame.node1) # Unknown
                 THEN 1
                 ELSE IF /\ GeneralCategory(frame.node1) = GeneralCategory(frame.node2)
                         /\ GeneralCategory(frame.node1) # Unknown
                 THEN 5
                 ELSE INFTY
            ELSE IF frame.node1.abstr = frame.node2.abstr THEN 5 ELSE INFTY

\* two different verbs, neither in the dictionary
C18_Witness ==
    /\ TableCase
    /\ frame.node1.type = "action"
    /\ ~Known(frame.node1)
    /\ ~Known(frame.node2)
    /\ frame.ret = INFTY

\* C19: insertion_cost and remove_cost are 100 for every node; update_cost
\* is one of 0, 1, 5, INFTY; each legal update cost (0, 1, 5) is below
\* insertion_cost + remove_cost = 200, and INFTY is above it.
C19_CostOrdering ==
    LET node == ZssNode(zss_label(frame.node1, cooking_verbs_to_categories), <<>>)
    IN  /\ (frame.fn \in {"insertion_cost", "remove_cost"} /\ frame.returned) => frame.ret = 100
        /\ Costed =>
              /\ frame.ret \in {0, 1, 5, INFTY}
              /\ insertion_cost(node) + remove_cost(node) = 200
              /\ frame.ret # INFTY => frame.ret < insertion_cost(node) + remove_cost(node)
              /\ INFTY > insertion_cost(node) + remove_cost(node)

\* a legal update that is not a match
C19_Witness == Costed /\ frame.ret \in {1, 5}

\* ------------------------------------------------------------------------
\* Properties of the edit script
\* ------------------------------------------------------------------------

\* distance has returned for A = bake(flour, sugar), B = bake(flour, chocolate)
FlourSugarToFlourChocolate ==
    /\ frame.fn = "distance"
    /\ frame.returned
    /\ DOMAIN frame.t1 = {"bake_a", "flour_a", "sugar_a"}
    /\ DOMAIN frame.t2 = {"bake_b", "flour_b", "chocolate_b"}

NonMatch(operations) == {op \in operations : op.kind # "match"}

RECURSIVE Shape(_, _)
Shape(tree, n) ==
    LET children == {c \in Range(tree[n].children) : c \in DOMAIN tree}
        shapes == {Shape(tree, c) : c \in children}
    IN  <<get_formatted_node_label(tree, n),
          [shape \in shapes |-> Cardinality({c \in children : Shape(tree, c) = shape})]>>

\* one root each, as many nodes, and the same shape from the root down
Isomorphic(tree1, tree2) ==
    /\ Cardinality(Roots(tree1)) = 1
    /\ Cardinality(Roots(tree2)) = 1
    /\ Cardinality(DOMAIN tree1) = Cardinality(DOMAIN tree2)
    /\ \A r1 \in Roots(tree1) : \A r2 \in Roots(tree2) : Shape(tree1, r1) = Shape(tree2, r2)

\* the whole list of concise operations was scheduled, in its original order
FullUnshuffled ==
    /\ scn # 0
    /\ short_operations = get_concise_operations(Scenarios[scn].all_operations)

\* C16: applying the entire operation list in its original, unshuffled order
\* to tree A returns a tree isomorphic to tree B: the same formatted labels
\* in the same arrangement at every subtree.
C16_FullApplicationConverges ==
    (FullUnshuffled /\ pc \in {"done", "error"}) =>
        (pc = "done" /\ Isomorphic(intermediate_tree, Scenarios[scn].tree_dict2))

\* build_tracking_tree_dict_for_ops has returned and apply_tree_edits has not
\* touched its copy yet
Built == scn # 0 /\ pc = "scheduled" /\ i = 1 /\ last.tag = "none"

\* the working tree of concretize_tree_edit_operations when it returns
FinalTree == Scenarios[scn].new_tree

\* the nodes of tree A that the script removes
RemovedNodes == DOMAIN Scenarios[scn].tree_dict1 \ DOMAIN FinalTree

NamedInScript ==
    {Scenarios[scn].all_operations[p].node :
        p \in {q \in 1..Len(Scenarios[scn].all_operations) :
                  Scenarios[scn].all_operations[q].kind \in {"remove", "update", "match"}}}

\* C21 as stated: in the tracking tree that build_tracking_tree_dict_for_ops
\* returns, every node carries a marked flag and the flag is false.
C21_AllUnmarked ==
    Built => \A n \in DOMAIN tracking_tree :
                tracking_tree[n].has_marked /\ ~tracking_tree[n].marked

\* C21, amended: in the returned tracking tree every inserted node (a node of
\* tree B) carries marked = false, and every node of tree A that a remove,
\* update or match line names carries marked = true; a node of tree A that no
\* such line names carries no marked flag.
C21_InsertedUnmarked ==
    Built => \A n \in DOMAIN tracking_tree :
                IF n \in DOMAIN Scenarios[scn].tree_dict1
                THEN /\ tracking_tree[n].has_marked <=> n \in NamedInScript
                     /\ tracking_tree[n].has_marked => tracking_tree[n].marked
                ELSE tracking_tree[n].has_marked /\ ~tracking_tree[n].marked

\* a tracking tree with a marked node of tree A and an unmarked inserted node
C21_Witness ==
    /\ Built
    /\ \E n \in DOMAIN Scenarios[scn].tree_dict1 : tracking_tree[n].marked
    /\ \E n \in DOMAIN tracking_tree \ DOMAIN Scenarios[scn].tree_dict1 :
           tracking_tree[n].has_marked /\ ~tracking_tree[n].marked

\* ------------------------------------------------------------------------
\* Properties of the request
\* ------------------------------------------------------------------------

Combined == frame.fn = "combine_two_dishes" /\ frame.returned

\* one parentless node, and climbing the parent pointers from any node ends at
\* a node flagged as root
WellFormed(tree) ==
    /\ Cardinality({n \in DOMAIN tree : tree[n].parent = NoNode}) = 1
    /\ \A n \in DOMAIN tree : tree[Climb(tree, n, Cardinality(DOMAIN tree))].root

IllFormedRequest == ~WellFormed(frame.tree_dict1) \/ ~WellFormed(frame.tree_dict2)

\* C22 as stated: a request with an input tree that has more than one root or
\* a node disconnected from the root is rejected with an error before the
\* distance is computed, and no intermediate tree is produced for it.
C22_RejectedWithError ==
    (Combined /\ IllFormedRequest) =>
        /\ frame.ret.raised
        /\ frame.ret.calls = 0
        /\ frame.ret.combinations = {}

\* C22, amended: such a request is skipped by combine_two_dishes without any
\* error: create_single_combination is not called, no intermediate tree is
\* produced and no exception is raised; a request of two well-formed trees
\* is combined once per version and direction.
C22_SkippedSilently ==
    Combined =>
        IF IllFormedRequest
        THEN ~frame.ret.raised /\ frame.ret.calls = 0 /\ frame.ret.combinations = {}
        ELSE /\ ~frame.ret.raised
             /\ frame.ret.calls = Cardinality(frame.ret.combinations)
             /\ frame.ret.calls >= frame.versions

\* a request whose second tree has a node that hangs on nothing
C22_Witness ==
    /\ Combined
    /\ WellFormed(frame.tree_dict1)
    /\ ~WellFormed(frame.tree_dict2)
    /\ frame.ret.calls = 0

\* ------------------------------------------------------------------------
\* Properties of the concrete script
\* ------------------------------------------------------------------------

Script == Scenarios[scn].all_operations

InsertForms == {"insert", "insert_child", "insert_father"}

\* the line has the arguments its form asks for
HasForm(line, form) ==
    /\ line.kind = form
    /\ line.node # NoNode
    /\ (line.ref # NoNode) <=> form \in {"insert_child", "update", "match", "child_of"}
    /\ (line.names # <<>>) <=> form = "insert_father"

Removed ==
    /\ frame.fn = "remove_node_from_tree_dict"
    /\ frame.returned
    /\ frame.node_name \in DOMAIN frame.tree_dict

InLabelOrder(names, tree) ==
    \A p, q \in 1..Len(names) : p < q => StrLeq(tree[names[p]].label, tree[names[q]].label)

\* C24: the removed node is gone; each of its children has the removed
\* node's parent as parent and is listed by that parent, or is marked root
\* when the removed node was the root; the affected children list is in
\* label order.
C24_RemoveSplicesChildren ==
    Removed =>
        LET before == frame.tree_dict
            after == frame.ret.tree_dict
            gone == frame.node_name
            parent_name == before[gone].parent
        IN  /\ gone \notin DOMAIN after
            /\ \A c \in Range(before[gone].children) :
                   /\ after[c].parent = parent_name
                   /\ IF before[gone].root
                      THEN after[c].root
                      ELSE c \in Range(after[parent_name].children)
            /\ parent_name # NoNode =>
                   /\ gone \notin Range(after[parent_name].children)
                   /\ InLabelOrder(after[parent_name].children, after)

\* the root of a working tree was removed
C24_RootRemoved == Removed /\ frame.tree_dict[frame.node_name].root

\* ------------------------------------------------------------------------
\* Order of the children lists in the applier
\* ------------------------------------------------------------------------

\* the children entries of n that name nodes of the tree, in list order
PresentChildren(tree, n) == SelectSeq(tree[n].children, LAMBDA c : c \in DOMAIN tree)

ChildrenInLabelOrder(tree) ==
    \A n \in DOMAIN tree :
        LET present == PresentChildren(tree, n) IN
        \A p, q \in 1..Len(present) : p < q => tree[present[p]].label <= tree[present[q]].label

\* C25: after every operation applied by handle_one_operation and in the
\* tree returned by apply_tree_edits, every node's children list is in
\* non-decreasing order of the children's current labels.
C25_ChildrenSorted ==
    (pc # "raised" /\ last.tag # "none") => ChildrenInLabelOrder(intermediate_tree)

\* ------------------------------------------------------------------------
\* Properties of the renaming
\* ------------------------------------------------------------------------

Prepared == frame.fn = "prepare_tree_dict_for_recombination" /\ frame.returned

\* name followed by an underscore and the letter
Tagged(name, letter) == [p \in 1..(Len(name) + 2) |->
                            IF p <= Len(name) THEN name[p]
                            ELSE IF p = Len(name) + 1 THEN "_" ELSE letter]

\* `after` is `before` with every name n, as key, as parent and as child,
\* replaced by n followed by "_" and the letter, and nothing else changed
RenamedCopy(before, after, letter) ==
    /\ DOMAIN after = {Tagged(n, letter) : n \in DOMAIN before}
    /\ Cardinality(DOMAIN after) = Cardinality(DOMAIN before)
    /\ \A n \in DOMAIN before :
        LET old == before[n]
            new == after[Tagged(n, letter)]
        IN  /\ new.label = old.label /\ new.type = old.type /\ new.abstr = old.abstr
            /\ new.root = old.root
            /\ IF old.parent = <<>> THEN new.parent = <<>>
               ELSE new.parent = Tagged(old.parent, letter)
            /\ Len(new.children) = Len(old.children)
            /\ \A p \in 1..Len(old.children) :
                   new.children[p] = Tagged(old.children[p], letter)

\* C28: add_suffix_to_all_node_names renames every node injectively and
\* rewrites every parent and children reference alike, so that its result
\* is the input tree under the renaming; the names of tree A prepared with
\* suffix a and of tree B prepared with suffix b are disjoint.
C28_RenamingIsIsomorphism ==
    Prepared =>
        /\ RenamedCopy(frame.ret.t1.labelled, frame.ret.t1.suffixed, "a")
        /\ RenamedCopy(frame.ret.t2.labelled, frame.ret.t2.suffixed, "b")
        /\ DOMAIN frame.ret.t1.prepared = DOMAIN frame.ret.t1.suffixed
        /\ DOMAIN frame.ret.t2.prepared = DOMAIN frame.ret.t2.suffixed
        /\ (DOMAIN frame.ret.t1.prepared) \cap (DOMAIN frame.ret.t2.prepared) = {}

\* both recipes use the same names, one of which ends in "_a", and the first
\* has a node with a parent and a node with children
C28_Witness ==
    /\ Prepared
    /\ DOMAIN frame.recipe1.tree_dict = DOMAIN frame.recipe2.tree_dict
    /\ <<"n", "_", "a">> \in DOMAIN frame.recipe1.tree_dict
    /\ <<"n", "_", "a", "_", "a">> \in DOMAIN frame.ret.t1.prepared
    /\ \E n \in DOMAIN frame.ret.t1.prepared :
           frame.ret.t1.prepared[n].parent = <<"n", "_", "a">>

\* ------------------------------------------------------------------------
\* The caller's objects
\* ------------------------------------------------------------------------

\* C26: the trees handed in are left as they were: build_tracking_tree_dict_for_ops
\* leaves both prepared trees unchanged, apply_tree_edits leaves the caller's
\* tree and the caller's tracking tree unchanged, and the preparation of
\* create_single_combination leaves the trees stored in sampled_recipes unchanged.
C26_InputsUnchanged ==
    /\ scn # 0 =>
          /\ frame.t1_tree_dict.value = Scenarios[scn].tree_dict1
          /\ frame.t2_tree_dict.value = Scenarios[scn].tree_dict2
          /\ frame.tracking_tree.value =
                 TrackingReplay(TrackingCopy(Scenarios[scn].tree_dict1),
                                Scenarios[scn].all_operations, Scenarios[scn].tree_dict2)
    /\ Prepared =>
          /\ frame.ret.stored1 = frame.recipe1.tree_dict
          /\ frame.ret.stored2 = frame.recipe2.tree_dict

\* apply_tree_edits has returned a tree that differs from the caller's, with
\* a node marked and a node deleted in its copy of the tracking tree
C26_Witness ==
    /\ scn # 0
    /\ pc = "done"
    /\ DOMAIN intermediate_tree # DOMAIN frame.t1_tree_dict.value
    /\ DOMAIN tracking_tree # DOMAIN frame.tracking_tree.value
    /\ \E n \in DOMAIN tracking_tree : tracking_tree[n].marked /\ ~frame.tracking_tree.value[n].marked

\* ------------------------------------------------------------------------
\* Determinism
\* ------------------------------------------------------------------------

\* the operation that handle_one_operation is about to be called on, if any
Pending ==
    IF pc = "scheduled" /\ i <= Len(short_operations) THEN <<short_operations[i]>>
    ELSE IF pc = "retry" /\ k <= Len(postponed_operations) THEN <<postponed_operations[k]>>
    ELSE <<>>

Rendered == frame.fn = "create_dot_code_for_tree" /\ frame.returned

\* the line opens with a tab and the string, followed by one of the symbols
OpensWith(line, str, symbols) ==
    /\ Len(line) >= Len(str) + 2
    /\ line[1] = "\t"
    /\ \A p \in 1..Len(str) : line[p + 1] = str[p]
    /\ line[Len(str) + 2] \in symbols

\* the line is: tab, first string, arrow, second string, end of statement
IsArrow(line, first, second) ==
    /\ Len(line) = Len(first) + Len(second) + 3
    /\ OpensWith(line, first, {" -> "})
    /\ \A p \in 1..Len(second) : line[Len(first) + 2 + p] = second[p]
    /\ line[Len(line)] = ";\n"

\* how many lines of the text satisfy the test
HowMany(text, Test(_)) == Cardinality({p \in 1..Len(text) : Test(text[p])})

\* how often the name is listed in the children list
Listed(children, name) == Cardinality({p \in 1..Len(children) : children[p] = name})

\* C29: create_dot_code_for_tree leaves the tree as it was, writes one node
\* line for every node and one edge line "child -> parent" for every entry
\* of every children list, and nothing else between the two header lines and
\* the closing brace.
C29_RenderingIsProjection ==
    Rendered =>
        LET tree == frame.tree_dict
            text == frame.ret.dot_code_str
            entries == UNION {{<<n, p>> : p \in 1..Len(tree[n].children)} : n \in DOMAIN tree}
        IN  /\ frame.ret.tree_dict = tree
            /\ \A n \in DOMAIN tree :
                   HowMany(text, LAMBDA line : OpensWith(line, n, {"[label=<", " [label=<"})) = 1
            /\ \A n \in DOMAIN tree : \A c \in DOMAIN tree :
                   HowMany(text, LAMBDA line : IsArrow(line, c, n)) = Listed(tree[n].children, c)
            /\ Len(text) = 3 + Cardinality(DOMAIN tree)
                             + Cardinality(entries)

\* a tree of three nodes and two edges, one node under the root's child
C29_Witness ==
    /\ Rendered
    /\ Len(frame.ret.dot_code_str) = 8
    /\ \E n \in DOMAIN frame.tree_dict :
           /\ ~frame.tree_dict[n].root
           /\ frame.tree_dict[n].children # <<>>
           /\ "core" \in frame.tree_dict[frame.tree_dict[n].children[1]].extra_info

\* how often the operation occurs in the list
Occurrences(operations, op) == Cardinality({p \in 1..Len(operations) : operations[p] = op})

\* C30: the list returned by shuffle_operation_order holds exactly the
\* operations of the input list, each as often as the input list holds it,
\* whichever nodes are core or structural.
C30_OnlyReorders ==
    Shuffled =>
        /\ Len(frame.ret) = Len(frame.short_operations)
        /\ \A op \in Range(frame.ret) \cup Range(frame.short_operations) :
               Occurrences(frame.ret, op) = Occurrences(frame.short_operations, op)

\* the input list is one UPDATE of a structural node to a core node
C30_UpdateOfBothKinds ==
    /\ Shuffled
    /\ Len(frame.short_operations) = 1
    /\ IsCoreUpdate(frame.short_operations[1])
    /\ IsStructuralUpdate(frame.short_operations[1])

\* ------------------------------------------------------------------------
\* The working tree against the tracking topology
\* ------------------------------------------------------------------------

\* every node of the tree hangs under its nearest marked ancestor of the
\* tracking tree, and is parentless when it has none
FollowsTracking(tree, tracking) ==
    \A n \in DOMAIN tree :
        /\ n \in DOMAIN tracking
        /\ ~AncestorRaises(tracking, n)
        /\ tree[n].parent = get_nearest_marked_ancestor(tracking, n)

\* C31: in every state of apply_tree_edits, the parent of every node of the
\* working tree is the node's nearest marked ancestor in the working copy of
\* the tracking tree, and the node is parentless exactly when it has no
\* marked ancestor.
C31_WorkingFollowsTracking ==
    pc # "error" => FollowsTracking(intermediate_tree, tracking_tree)

\* apply_tree_edits has made its copies and has handled no operation yet
C31_BeforeFirstOperation ==
    pc = "scheduled" /\ i = 1 /\ last = NoCall

\* ------------------------------------------------------------------------
\* The marked flag
\* ------------------------------------------------------------------------

\* tracking_tree[n]["marked"] can be read and is True
IsMarked(tracking, n) == tracking[n].has_marked /\ tracking[n].marked

\* C32: in every state of apply_tree_edits, started on the tracking tree that
\* build_tracking_tree_dict_for_ops built, a node of the working copy of the
\* tracking tree is marked exactly when it is a node of the working tree, and
\* every node of the working tree is a node of the tracking copy that carries
\* a marked flag.
C32_MarkedIffMaterialized ==
    /\ \A n \in DOMAIN tracking_tree :
           IsMarked(tracking_tree, n) <=> n \in DOMAIN intermediate_tree
    /\ \A n \in DOMAIN intermediate_tree :
           n \in DOMAIN tracking_tree /\ tracking_tree[n].has_marked

\* an ADD has just attached its node, while another inserted node is still
\* waiting and a node of the first tree has already been deleted
C32_Witness ==
    /\ last.tag = "ADD" /\ ~last.postponed
    /\ last.node \in DOMAIN intermediate_tree
    /\ IsMarked(tracking_tree, last.node)
    /\ \E n \in DOMAIN tracking_tree : ~IsMarked(tracking_tree, n)
    /\ \E n \in DOMAIN Scenarios[scn].tree_dict1 :
           n \notin DOMAIN tracking_tree /\ n \notin DOMAIN intermediate_tree

\* ------------------------------------------------------------------------
\* Termination of apply_tree_edits
\* ------------------------------------------------------------------------

\* `short` is `long` with some elements left out
RECURSIVE IsSubSeqOf(_, _)
IsSubSeqOf(short, long) ==
    IF short = <<>> THEN TRUE
    ELSE IF long = <<>> THEN FALSE
    ELSE IF Head(short) = Head(long) THEN IsSubSeqOf(Tail(short), Tail(long))
    ELSE IsSubSeqOf(short, Tail(long))

\* the operations retried so far in the current pass
RetriedOps == [j \in 1..Len(retried) |-> retried[j].op]

\* C33: apply_tree_edits terminates for every operation list and stop index.
\* Each scheduled operation of the prefix is handled exactly once, in schedule
\* order; a retry pass starts only after a scheduled operation that was
\* applied, and it retries each operation that was postponed at that moment at
\* most once, so the calls of handle_one_operation are bounded.
C33_Terminates ==
    /\ <>(pc \in {"done", "error"})
    /\ [](Len(retried) <= Len(pass_start) /\ IsSubSeqOf(RetriedOps, pass_start))
    /\ [][/\ i' # i =>
                /\ pc = "scheduled" /\ i' = i + 1
                /\ ~last'.retry
                /\ last'.tag = short_operations[i].tag
                /\ last'.node = short_operations[i].node
          /\ pc' = "done" => i > Len(short_operations) /\ i' = i
          /\ (pc = "scheduled" /\ pc' = "retry") =>
                ~last'.postponed /\ pass_start' = postponed_operations
          /\ (pc = "retry" /\ pc' # "error") =>
                /\ last'.retry /\ i' = i
                /\ Len(retried') = Len(retried) + 1]_vars

\* the function has returned after three scheduled operations and a retry
\* pass that left an operation in the queue
C33_Witness ==
    /\ pc = "done"
    /\ Len(short_operations) >= 3
    /\ retried # <<>>
    /\ postponed_operations # <<>>

\* ------------------------------------------------------------------------
\* The replay of build_tracking_tree_dict_for_ops, line by line
\* ------------------------------------------------------------------------

\* the tracking tree after the first `done` lines of the script
Replayed(done) ==
    TrackingReplay(TrackingCopy(Scenarios[scn].tree_dict1),
                   SubSeq(Scenarios[scn].all_operations, 1, done),
                   Scenarios[scn].tree_dict2)

\* the two trees differ at most in the marked flag of node n
OnlyMarked(before, after, n) ==
    /\ DOMAIN after = DOMAIN before
    /\ \A m \in DOMAIN before \ {n} : after[m] = before[m]
    /\ after[n] = [before[n] EXCEPT !.marked = TRUE, !.has_marked = TRUE]

\* C34: the tracking tree that build_tracking_tree_dict_for_ops returns holds
\* every node of tree A and every node that an insert line of the script
\* names; no line of the replay deletes a node; a remove line leaves its node
\* in the tree with its parent and its children, and only sets its marked
\* flag.
C34_ReplayKeepsNodes ==
    Built =>
        LET ops == Scenarios[scn].all_operations IN
        /\ tracking_tree = Replayed(Len(ops))
        /\ DOMAIN Scenarios[scn].tree_dict1 \subseteq DOMAIN tracking_tree
        /\ \A p \in 1..Len(ops) :
               /\ ops[p].kind \in {"insert", "insert_child", "insert_father"} =>
                      ops[p].node \in DOMAIN tracking_tree
               /\ DOMAIN Replayed(p - 1) \subseteq DOMAIN Replayed(p)
               /\ ops[p].kind = "remove" =>
                      /\ ops[p].node \in DOMAIN Replayed(p - 1)
                      /\ OnlyMarked(Replayed(p - 1), Replayed(p), ops[p].node)
                      /\ tracking_tree[ops[p].node].marked

\* the script removes a node that has a parent and children, after an insert
\* line has put a new father over nodes of tree A
C34_Witness ==
    /\ Built
    /\ \E p, q \in 1..Len(Scenarios[scn].all_operations) :
          LET ops == Scenarios[scn].all_operations IN
          /\ q < p
          /\ ops[q].kind = "insert_father"
          /\ ops[p].kind = "remove"
          /\ tracking_tree[ops[p].node].parent # NoNode
          /\ tracking_tree[ops[p].node].children # <<>>

\* ------------------------------------------------------------------------
\* The concise operations
\* ------------------------------------------------------------------------

Concised == frame.fn = "get_concise_operations" /\ frame.returned

\* the lines that begin with insert, remove or update, in their order
Editing(lines) == SelectSeq(lines, LAMBDA line : line[1] \in {"insert", "remove", "update"})

\* the second word of the line, and the fifth
Word(line, place) == Split(line, " ")[place]

\* a concise operation of the state machine, as the string it stands for
ShortText(op) ==
    <<op.tag, " ">> \o Symbols(op.node)
        \o (IF op.tag = "UPDATE" THEN <<" ">> \o Symbols(op.new) ELSE <<>>)

\* C35: get_concise_operations turns, in the order of the input, every line
\* that starts with insert into "ADD <id>", every line that starts with remove
\* into "DEL <id>" and every line that starts with update into
\* "UPDATE <id> <newId>"; match lines and all other lines give nothing, so the
\* output is as long as the input has insert, remove and update lines.
C35_ConciseOperations ==
    Concised =>
        LET editing == Editing(frame.all_operations)
            out == frame.ret.concise_operations
        IN  /\ ~frame.ret.raised
            /\ Len(out) = Len(editing)
            /\ \A p \in 1..Len(editing) :
                   out[p] = CASE editing[p][1] = "insert" ->
                                     <<"ADD", " ">> \o Word(editing[p], 2)
                              [] editing[p][1] = "remove" ->
                                     <<"DEL", " ">> \o Word(editing[p], 2)
                              [] OTHER ->
                                     <<"UPDATE", " ">> \o Word(editing[p], 2) \o <<" ">>
                                         \o Word(editing[p], 5)
            /\ out = [p \in 1..Len(get_concise_operations(frame.script)) |->
                         ShortText(get_concise_operations(frame.script)[p])]

\* the input has lines of every kind, the line that attaches an orphan
\* included, and three of them are edits
C35_Witness ==
    /\ Concised
    /\ \A word \in {"insert", "remove", "update", "match"} :
           \E p \in 1..Len(frame.all_operations) : frame.all_operations[p][1] = word
    /\ \E p \in 1..Len(frame.all_operations) :
           /\ frame.all_operations[p][1] \notin {"insert", "remove", "update"}
           /\ Word(frame.all_operations[p], 2) = <<"child">>
    /\ Len(frame.ret.concise_operations) = 3
    /\ Len(frame.all_operations) = 5

\* ------------------------------------------------------------------------
\* Unique labels
\* ------------------------------------------------------------------------

\* no two nodes of the tree carry the same label
DistinctLabels(tree) ==
    \A n, m \in DOMAIN tree : n # m => tree[n].label # tree[m].label

\* the two trees have the same nodes, with the same parent, children, type
\* and root flag
SameShape(before, after) ==
    /\ DOMAIN after = DOMAIN before
    /\ \A n \in DOMAIN before :
           /\ after[n].parent = before[n].parent
           /\ after[n].children = before[n].children
           /\ after[n].type = before[n].type
           /\ after[n].root = before[n].root

\* C36: after handle_same_labels the labels of the nodes of the tree are
\* pairwise distinct, whatever the input tree (a numbered label may equal a
\* label that was already there), and no node's parent, children, type or
\* root flag has changed.
C36_LabelsDistinct ==
    Prepared =>
        /\ DistinctLabels(frame.ret.t1.labelled)
        /\ SameShape(frame.recipe1.tree_dict, frame.ret.t1.labelled)

\* the stored tree has a label twice, and a third label that is the first
\* of the numbered ones
C36_NumberedLabelPresent ==
    /\ Prepared
    /\ \E n, m, o \in DOMAIN frame.recipe1.tree_dict :
          /\ n # m
          /\ frame.recipe1.tree_dict[n].label = frame.recipe1.tree_dict[m].label
          /\ frame.recipe1.tree_dict[o].label = frame.recipe1.tree_dict[n].label \o Str(1)

\* ------------------------------------------------------------------------
\* The removal list of cause_taste_collisions
\* ------------------------------------------------------------------------

\* no element occurs twice in the list
NoRepeats(list) == \A p, q \in 1..Len(list) : p # q => list[p] # list[q]

\* C37: cause_taste_collisions terminates whatever the problematic pairs are;
\* every problematic pair has at least one of its two ingredients in the
\* returned list, and no ingredient is in the list twice.
C37_RemovalCoversCollisions ==
    /\ <>(frame.returned)
    /\ [](NoRepeats(frame.ingr_to_remove))
    /\ [](frame.returned =>
            /\ frame.ret = frame.ingr_to_remove
            /\ \A p \in 1..Len(frame.collisions) :
                   frame.collisions[p][1] \in Range(frame.ret)
                       \/ frame.collisions[p][2] \in Range(frame.ret))

\* the function has returned two ingredients for four pairs that collide,
\* with a preferred order that names one of the two
C37_Witness ==
    /\ frame.returned
    /\ Len(frame.collisions) = 4
    /\ Len(frame.ret) = 2
    /\ \E p \in 1..Len(frame.ret) : frame.ret[p] \in Range(frame.preferred_order)

\* ------------------------------------------------------------------------
\* The retries of the model call
\* ------------------------------------------------------------------------

\* the calls of the model that raised
RaisedCalls == frame.tries_given - frame.tries

\* C38: get_single_recipe_initial_translation calls the model at most `tries`
\* times; the first call that does not raise is the last call; when all
\* `tries` calls raise, the function returns the empty string and does not
\* raise.
C38_ModelCallRetry ==
    /\ [](/\ frame.calls <= frame.tries_given
          /\ frame.calls = RaisedCalls + (IF frame.success THEN 1 ELSE 0)
          /\ (frame.returned /\ ~frame.success) =>
                 frame.calls = frame.tries_given /\ frame.ret = <<>>
          /\ (frame.raised => frame.success)
          /\ (frame.returned /\ frame.success) => frame.ret # <<>>)
    /\ [][/\ frame.success => frame'.calls = frame.calls
          /\ (~frame.success /\ frame.tries = 0 /\ ~frame.returned) =>
                 frame'.returned /\ frame'.ret = <<>> /\ ~frame'.raised]_vars

\* three calls were asked for, all three raised, and the function returned
C38_Witness ==
    /\ frame.returned
    /\ frame.tries_given = 3
    /\ frame.calls = 3
    /\ ~frame.success
    /\ frame.ret = <<>>

\* ------------------------------------------------------------------------
\* The nearest marked descendants and the nearest marked ancestor
\* ------------------------------------------------------------------------

\* the parent chain of a node, nearest first
RECURSIVE ParentChain(_, _)
ParentChain(tracking, n) ==
    IF tracking[n].parent = NoNode THEN <<>>
    ELSE <<tracking[n].parent>> \o ParentChain(tracking, tracking[n].parent)

\* the marked proper descendants of n with no marked node strictly between
NearestMarked(tracking, n) ==
    {d \in DOMAIN tracking :
        /\ tracking[d].marked
        /\ \E j \in 1..Len(ParentChain(tracking, d)) :
              /\ ParentChain(tracking, d)[j] = n
              /\ \A h \in 1..(j - 1) : ~tracking[ParentChain(tracking, d)[h]].marked}

FirstMarked(tracking, n) ==
    LET chain == ParentChain(tracking, n)
        at == {j \in 1..Len(chain) : tracking[chain[j]].marked}
    IN  IF at = {} THEN NoNode
        ELSE chain[CHOOSE j \in at : \A h \in at : j <= h]

\* C39: for every node of the tracking tree, get_nearest_marked_descendants
\* returns, each once, exactly the marked proper descendants of the node that
\* have no marked node strictly between the node and them, and
\* get_nearest_marked_ancestor returns the first marked node on the parent
\* chain of the node, or None when the chain has no marked node.
C39_NearestMarked ==
    \A n \in DOMAIN tracking_tree :
        (~DescendantsRaise(tracking_tree, n) /\ ~AncestorRaises(tracking_tree, n)) =>
            LET found == marked_descendants_rec(tracking_tree, n, EmptyBag).ret
            IN  /\ \A d \in BagToSet(found) : CopiesIn(d, found) = 1
                /\ BagToSet(found) = NearestMarked(tracking_tree, n)
                /\ \A sorted \in get_nearest_marked_descendants(tracking_tree, n) :
                      /\ Range(sorted) = BagToSet(found)
                      /\ Len(sorted) = BagCardinality(found)
                /\ get_nearest_marked_ancestor(tracking_tree, n) = FirstMarked(tracking_tree, n)

====
